---- MODULE Spec2Model ----
(***************************************************************************)
(* whatsmeow (crates/whatsmeow): the client lifecycle coordinator          *)
(* (inner.rs), the native bridge adapter (ffi.rs), the envelope decoder    *)
(* (events.rs), the broadcast event bus (event_bus.rs) and the pull-based  *)
(* event stream (stream.rs).                                               *)
(*                                                                         *)
(* Tasks run on a multi-threaded runtime: every access to shared state     *)
(* (the adapter mutex, the atomics, the watch channel, the broadcast       *)
(* channel) is one step, and steps of different tasks interleave freely.   *)
(***************************************************************************)
EXTENDS Integers, Sequences, FiniteSets, TLC

\* ------------------------------------------------------------------ bounds

\* Envelopes the native layer hands out over one run of the model.
MaxEvents == 3

\* Events emitted when the bus is looked at on its own.
MaxEmits == 4

\* Length of the adapter's event buffer.  The program allocates 64 KiB
\* (ffi.rs:56); the model scales it.
BufLen == 3

\* Ring capacity of the broadcast channel.  The program fixes it at 256
\* (event_bus.rs:8); the model scales it so that overflow is reachable.
EVENT_CHANNEL_CAPACITY == 2

\* -------------------------------------------------------------- constants

\* whatsmeow-sys/src/lib.rs, mod error_codes
WM_OK == 0
WM_ERR_INIT == -1
WM_ERR_CONNECT == -2
WM_ERR_DISCONNECTED == -3
WM_ERR_INVALID_HANDLE == -4
WM_ERR_BUFFER_TOO_SMALL == -5

\* Result codes the native layer answers a command with: the five the
\* adapter names, one it does not name, and one positive value.
NativeCodes ==
    {WM_OK, WM_ERR_INIT, WM_ERR_CONNECT, WM_ERR_DISCONNECTED,
     WM_ERR_INVALID_HANDLE, WM_ERR_BUFFER_TOO_SMALL, 1}

\* The codes drawn for connect / disconnect / send in the interleaving model.
CallCodes == {WM_OK, WM_ERR_CONNECT, WM_ERR_BUFFER_TOO_SMALL}

\* The negative values drawn for wm_poll_event.
PollErrCodes == {WM_ERR_DISCONNECTED, WM_ERR_INVALID_HANDLE}

\* ------------------------------------------------------------------ tasks

Runners == {"r1"}
Callers == {"c1", "c2"}

\* r2 is the task of a second run(), on a clone of the handle
AllRunners == Runners \cup {"r2"}
Tasks == AllRunners \cup Callers
Subs == {"s1", "s2"}

Free == "free"

VARIABLES
    ffiLock,      \* InnerClient.ffi: the holder of the parking_lot mutex, or Free
    connected,    \* InnerClient.connected (AtomicBool)
    shutdown,     \* the watch channel: [value, changed (version moved since creation)]
    pc,           \* where each task stands
    arg,          \* send(): whether the recipient, and the text, holds a NUL byte
    result,       \* what the last finished operation of each task returned
    lastCode,     \* the code the last native connect / send / poll returned to each task
    discNative,   \* per caller: its last disconnect() issued the native call
    bytes,        \* run(): `data`, the polled envelope
    event,        \* run(): the decoded event
    nativeOut,    \* history: the envelopes wm_poll_event handed out, in order
    dispatched,   \* history: the events passed to Handlers::dispatch, in order
    emitted,      \* history: the events passed to EventBus::emit, in order
    tail,         \* broadcast channel: [pos, rx_cnt, closed]
    buffer,       \* broadcast channel: slot index -> [pos, val]
    numTx,        \* broadcast channel: live Sender handles
    sub,          \* per subscriber: [state, next] of its Receiver
    subAt,        \* history: how many events had been emitted when it subscribed
    got,          \* history: the events poll_next yielded to the consumer
    skipped,      \* history: the sum of the `missed` counts of its Lagged answers
    rxLast,       \* what the last try_recv of the subscriber returned
    pollLast,     \* what the last poll_next of the subscriber returned
    holds,        \* per task: it owns a WhatsApp handle (an Arc<InnerClient>)
    destroys,     \* history: the number of wm_client_destroy calls on the handle
    since,        \* history, per run(): polls begun and events published by it
                  \* while shutdown was signaled
    handlers,     \* Handlers: per list, the registered callbacks in order
    spawned,      \* the tasks Handlers::dispatch has spawned, in spawn order
    clients,      \* WhatsAppManager.clients: the identifiers that have an entry
    coord,        \* per identifier: the coordinator built for it, in summary
    mgrLast,      \* what the last call on the manager returned
    event_buffer, \* FfiClient.event_buffer, byte by byte
    ffiLast,      \* what the last call made on the adapter directly returned
    builder       \* the WhatsAppBuilder of the coordinator, and what it was asked

coordVars == <<ffiLock, connected, shutdown, pc, arg, result, lastCode, discNative,
               bytes, event, nativeOut, dispatched>>
busVars == <<tail, buffer, numTx, emitted>>
subVars == <<sub, subAt, got, skipped, rxLast, pollLast>>
lifeVars == <<holds, destroys, since>>
handlerVars == <<handlers, spawned>>
mgrVars == <<clients, coord, mgrLast>>
adapterVars == <<event_buffer, ffiLast>>
sideVars == <<mgrVars, adapterVars, builder>>
vars == <<coordVars, busVars, subVars, lifeVars, handlerVars, sideVars>>

\* ------------------------------------------------------------- error.rs

Ok == [tag |-> "Ok", code |-> 0]
Err(tag) == [tag |-> tag, code |-> 0]
ErrFfi(code) == [tag |-> "Ffi", code |-> code]

\* A translation that takes every code that is not negative for success
check_resultNegativeOnly(code) ==
    CASE code >= 0 -> Ok
      [] code = WM_ERR_INIT -> Err("Init")
      [] code = WM_ERR_CONNECT -> Err("Connection")
      [] code = WM_ERR_DISCONNECTED -> Err("Disconnected")
      [] code = WM_ERR_INVALID_HANDLE -> Err("InvalidHandle")
      [] OTHER -> ErrFfi(code)

\* ffi.rs: FfiClient::check_result
check_result(code) ==
    CASE code = WM_OK -> Ok
      [] code = WM_ERR_INIT -> Err("Init")
      [] code = WM_ERR_CONNECT -> Err("Connection")
      [] code = WM_ERR_DISCONNECTED -> Err("Disconnected")
      [] code = WM_ERR_INVALID_HANDLE -> Err("InvalidHandle")
      [] OTHER -> ErrFfi(code)

NoResult == [op |-> "none", ret |-> Ok]

\* A builder on which nothing was called: no coordinator yet (`inner: None`,
\* builder.rs:21-27).  asked and created are history: the registrations the
\* caller made on it, and the native handles it created.
NoBuilder == [stage |-> "none", inner |-> FALSE, asked |-> <<>>, created |-> 0]

\* The history of a run() that has done nothing while shutdown was signaled;
\* the counts stop at two, which is one more than any of them is to reach
NoneSince == [polls |-> 0, emits |-> 0]
Bump(n) == IF n < 2 THEN n + 1 ELSE n

\* The arguments of a send without a NUL byte
NoArg == [jid |-> FALSE, text |-> FALSE]
Returned(op, ret) == [op |-> op, ret |-> ret]

\* ------------------------------------------------------------- events.rs

NoData == "absent"

\* An envelope as the native layer writes it: `json` says whether the bytes
\* parse as a RawEvent at all; `data` is absent, a payload of the shape the
\* type requires ("good") or a payload of another shape ("bad").
Envelope(json, type, data) == [json |-> json, type |-> type, data |-> data]

NoEvent == [id |-> 0, variant |-> "None", event_type |-> "", data |-> NoData]
MkEvent(variant, event_type, data) ==
    [id |-> 0, variant |-> variant, event_type |-> event_type, data |-> data]

ParseError == [ok |-> FALSE, event |-> NoEvent]
Decoded(ev) == [ok |-> TRUE, event |-> ev]

\* serde_json::from_value(data) into the variant's payload type
Payload(variant, data) ==
    IF data = "good" THEN Decoded(MkEvent(variant, "", data)) ELSE ParseError

\* events.rs: RawEvent::into_event
into_event(raw) ==
    CASE raw.type = "qr" ->
           IF raw.data # NoData THEN Payload("Qr", raw.data)
           ELSE Decoded(MkEvent("Unknown", "qr", NoData))
      [] raw.type = "pair_success" ->
           IF raw.data # NoData THEN Payload("PairSuccess", raw.data)
           ELSE Decoded(MkEvent("Connected", "", NoData))
      [] raw.type = "connected" -> Decoded(MkEvent("Connected", "", NoData))
      [] raw.type = "disconnected" -> Decoded(MkEvent("Disconnected", "", NoData))
      [] raw.type = "logged_out" ->
           IF raw.data # NoData THEN Payload("LoggedOut", raw.data)
           ELSE Decoded(MkEvent("Disconnected", "", NoData))
      [] raw.type = "message" ->
           IF raw.data # NoData THEN Payload("Message", raw.data)
           ELSE Decoded(MkEvent("Unknown", "message", NoData))
      [] raw.type = "receipt" ->
           IF raw.data # NoData THEN Payload("Receipt", raw.data)
           ELSE Decoded(MkEvent("Unknown", "receipt", NoData))
      [] raw.type = "presence" ->
           IF raw.data # NoData THEN Payload("Presence", raw.data)
           ELSE Decoded(MkEvent("Unknown", "presence", NoData))
      [] raw.type = "history_sync" -> Decoded(MkEvent("HistorySync", "", NoData))
      [] raw.type = "offline_sync_preview" ->
           IF raw.data # NoData THEN Payload("OfflineSyncPreview", raw.data)
           ELSE Decoded(MkEvent("Unknown", "offline_sync_preview", NoData))
      [] raw.type = "offline_sync_completed" ->
           IF raw.data # NoData THEN Payload("OfflineSyncCompleted", raw.data)
           ELSE Decoded(MkEvent("Unknown", "offline_sync_completed", NoData))
      [] OTHER -> Decoded(MkEvent("Unknown", raw.type, raw.data))

\* The `type` strings of the variant table, and one that is not in it
KnownTypes ==
    {"qr", "pair_success", "connected", "disconnected", "logged_out", "message",
     "receipt", "presence", "history_sync", "offline_sync_preview",
     "offline_sync_completed"}
OtherTypes == {"call"}

\* The known types whose variant carries a payload
PayloadTypes ==
    {"qr", "pair_success", "logged_out", "message", "receipt", "presence",
     "offline_sync_preview", "offline_sync_completed"}

\* Mutant: a known type that carries a payload is Unknown whenever data is missing.
DecodeMissingIsUnknown(env) ==
    IF env.json
    THEN IF env.data = NoData /\ env.type \in PayloadTypes
         THEN Decoded(MkEvent("Unknown", env.type, NoData))
         ELSE into_event(env)
    ELSE ParseError

\* inner.rs:88-89: serde_json::from_slice::<RawEvent>, then into_event
Decode(env) == IF env.json THEN into_event(env) ELSE ParseError

\* The envelopes the native layer produces in the interleaving model: two
\* decodable kinds and one that is not JSON.
PollEnvelopes ==
    {Envelope(TRUE, "connected", NoData),
     Envelope(TRUE, "message", "good"),
     Envelope(FALSE, "", NoData)}

\* Every envelope the decoder tells apart: each type with its data absent, of
\* the shape its variant requires or of another shape, and bytes that are not
\* a RawEvent.
AllEnvelopes ==
    {Envelope(TRUE, t, d) : t \in KnownTypes \cup OtherTypes,
                            d \in {NoData, "good", "bad"}}
        \cup {Envelope(FALSE, "", NoData)}

\* The lifecycle model does not look at what the events are.
LifecycleEnvelopes == {Envelope(TRUE, "connected", NoData)}

NoBytes == [id |-> 0, env |-> Envelope(FALSE, "", NoData)]

\* ---------------------------------------------- event_bus.rs / tokio broadcast

\* broadcast::channel(EVENT_CHANNEL_CAPACITY): every slot starts one lap behind.
\* The receiver half returned with the sender is dropped at once (`let (tx, _)`).
InitBuffer ==
    [i \in 0..(EVENT_CHANNEL_CAPACITY - 1) |->
        [pos |-> i - EVENT_CHANNEL_CAPACITY, val |-> NoEvent]]
InitTail == [pos |-> 0, rx_cnt |-> 0, closed |-> FALSE]

\* broadcast::Sender::send as called by EventBus::emit: with no receiver the
\* value is handed back (and dropped by `let _ =`), otherwise it is written to
\* the slot of the tail position, overwriting the oldest retained value.
BusSend(ev) ==
    IF tail.rx_cnt = 0
    THEN UNCHANGED <<tail, buffer>>
    ELSE /\ buffer' = [buffer EXCEPT ![tail.pos % EVENT_CHANNEL_CAPACITY] =
                          [pos |-> tail.pos, val |-> ev]]
         /\ tail' = [tail EXCEPT !.pos = @ + 1]

\* EventBus::emit
emit(ev) ==
    /\ emitted' = Append(emitted, ev)
    /\ BusSend(ev)

\* EventBus::clone / a Sender clone coming to life
BusCloneTx == numTx' = numTx + 1

\* A Sender handle dropped; the last one closes the channel.
BusDropTx ==
    /\ numTx' = numTx - 1
    /\ tail' = [tail EXCEPT !.closed = (numTx = 1)]

RecvOk(val, next) == [tag |-> "Ok", val |-> val, next |-> next, missed |-> 0]
RecvErr(tag, next, missed) ==
    [tag |-> tag, val |-> NoEvent, next |-> next, missed |-> missed]

\* Mutant: a received value does not move the cursor.
TryRecvNoAdvance(next) ==
    LET slot == buffer[next % EVENT_CHANNEL_CAPACITY] IN
    IF slot.pos # next
    THEN IF slot.pos + EVENT_CHANNEL_CAPACITY = next
         THEN RecvErr(IF tail.closed THEN "Closed" ELSE "Empty", next, 0)
         ELSE RecvErr("Lagged", tail.pos - EVENT_CHANNEL_CAPACITY,
                      tail.pos - EVENT_CHANNEL_CAPACITY - next)
    ELSE RecvOk(slot.val, next)

\* Mutant: a lagging cursor is moved to the tail, past the retained values.
TryRecvLagToTail(next) ==
    LET slot == buffer[next % EVENT_CHANNEL_CAPACITY] IN
    IF slot.pos # next
    THEN IF slot.pos + EVENT_CHANNEL_CAPACITY = next
         THEN RecvErr(IF tail.closed THEN "Closed" ELSE "Empty", next, 0)
         ELSE RecvErr("Lagged", tail.pos, tail.pos - next)
    ELSE RecvOk(slot.val, next + 1)

\* Mutant: a closed channel answers Closed before its retained values are read.
TryRecvClosedFirst(next) ==
    LET slot == buffer[next % EVENT_CHANNEL_CAPACITY] IN
    IF tail.closed
    THEN RecvErr("Closed", next, 0)
    ELSE IF slot.pos # next
         THEN IF slot.pos + EVENT_CHANNEL_CAPACITY = next
              THEN RecvErr("Empty", next, 0)
              ELSE RecvErr("Lagged", tail.pos - EVENT_CHANNEL_CAPACITY,
                           tail.pos - EVENT_CHANNEL_CAPACITY - next)
         ELSE RecvOk(slot.val, next + 1)

\* broadcast::Receiver::try_recv for a cursor at `next`: the slot of `next`
\* holds the value of that position, or the position one lap back (nothing
\* sent yet: Empty, or Closed once no sender is left), or a later position
\* (overwritten: Lagged(missed), the cursor moves to the oldest retained one).
TryRecv(next) ==
    LET slot == buffer[next % EVENT_CHANNEL_CAPACITY] IN
    IF slot.pos # next
    THEN IF slot.pos + EVENT_CHANNEL_CAPACITY = next
         THEN RecvErr(IF tail.closed THEN "Closed" ELSE "Empty", next, 0)
         ELSE LET oldest == tail.pos - EVENT_CHANNEL_CAPACITY
                  missed == oldest - next IN
              IF missed = 0
              THEN RecvOk(slot.val, next + 1)
              ELSE RecvErr("Lagged", oldest, missed)
    ELSE RecvOk(slot.val, next + 1)

\* Mutant: a lagged receiver ends the stream.
PollOfLagEnds(tag) ==
    CASE tag = "Ok" -> "Ready"
      [] tag = "Empty" -> "Pending"
      [] tag = "Lagged" -> "End"
      [] tag = "Closed" -> "End"

\* stream.rs: the match of EventStream::poll_next on try_recv's answer
PollOf(tag) ==
    CASE tag = "Ok" -> "Ready"
      [] tag = "Empty" -> "Pending"
      [] tag = "Lagged" -> "Pending"
      [] tag = "Closed" -> "End"

NoSub == [state |-> "none", next |-> 0]

\* Mutant: a new Receiver starts at the oldest retained value.
subscribeFromOldest(s) ==
    /\ sub[s].state = "none"
    /\ numTx > 0
    /\ tail' = [tail EXCEPT !.rx_cnt = @ + 1]
    /\ sub' = [sub EXCEPT ![s] =
                  [state |-> "live",
                   next |-> IF tail.pos > EVENT_CHANNEL_CAPACITY
                            THEN tail.pos - EVENT_CHANNEL_CAPACITY ELSE 0]]
    /\ subAt' = [subAt EXCEPT ![s] = Len(emitted)]
    /\ UNCHANGED <<buffer, numTx, emitted, got, skipped, rxLast, pollLast>>

\* EventBus::subscribe / InnerClient::events: a Receiver whose cursor is the tail
subscribe(s) ==
    /\ sub[s].state = "none"
    /\ numTx > 0
    /\ tail' = [tail EXCEPT !.rx_cnt = @ + 1]
    /\ sub' = [sub EXCEPT ![s] = [state |-> "live", next |-> tail.pos]]
    /\ subAt' = [subAt EXCEPT ![s] = Len(emitted)]
    /\ UNCHANGED <<buffer, numTx, emitted, got, skipped, rxLast, pollLast>>

\* EventStream::poll_next
poll_next(s) ==
    /\ sub[s].state = "live"
    /\ LET r == TryRecv(sub[s].next) IN
         /\ sub' = [sub EXCEPT ![s].next = r.next]
         /\ rxLast' = [rxLast EXCEPT ![s] = r.tag]
         /\ pollLast' = [pollLast EXCEPT ![s] = PollOf(r.tag)]
         /\ got' = [got EXCEPT ![s] = IF PollOf(r.tag) = "Ready"
                                      THEN Append(@, r.val) ELSE @]
         /\ skipped' = [skipped EXCEPT ![s] = @ + r.missed]
    /\ UNCHANGED <<tail, buffer, numTx, emitted, subAt>>

\* The consumer drops its EventStream: the Receiver goes away.
drop_stream(s) ==
    /\ sub[s].state = "live"
    /\ sub' = [sub EXCEPT ![s].state = "dropped"]
    /\ tail' = [tail EXCEPT !.rx_cnt = @ - 1]
    /\ UNCHANGED <<buffer, numTx, emitted, subAt, got, skipped, rxLast, pollLast>>

\* ------------------------------------------------------------- handlers.rs

\* The callbacks an application registers, and the lists of the registry
HandlerIds == {"h1", "h2"}
HandlerLists == {"qr", "message", "connected", "disconnected", "receipt", "presence"}

\* The lists that have a register_<kind> function
Registerable == {"qr", "message", "connected", "disconnected"}

\* Handlers::new
NoHandlers == [l \in HandlerLists |-> <<>>]

\* A registration that puts the callback in the place of the list
registerReplaces(reg, list, h) == [reg EXCEPT ![list] = <<h>>]

\* register_qr / register_message / register_connected / register_disconnected
register(reg, list, h) == [reg EXCEPT ![list] = Append(@, h)]

\* A dispatch that forgets the PairSuccess arm
RouteOfWithoutPairSuccess(variant) ==
    CASE variant = "Qr" -> "qr"
      [] variant = "Message" -> "message"
      [] variant = "Connected" -> "connected"
      [] variant \in {"Disconnected", "LoggedOut"} -> "disconnected"
      [] variant = "Receipt" -> "receipt"
      [] variant = "Presence" -> "presence"
      [] OTHER -> "none"

\* The `match event` of Handlers::dispatch: the list an event goes to
RouteOf(variant) ==
    CASE variant = "Qr" -> "qr"
      [] variant = "Message" -> "message"
      [] variant \in {"Connected", "PairSuccess"} -> "connected"
      [] variant \in {"Disconnected", "LoggedOut"} -> "disconnected"
      [] variant = "Receipt" -> "receipt"
      [] variant = "Presence" -> "presence"
      [] OTHER -> "none"

\* `for h in handlers { tokio::spawn(async move { h(data).await }) }`: one task
\* per callback of the list, spawned in the order of the list
SpawnAll(list, ev) ==
    [i \in 1..Len(handlers[list]) |->
        [h |-> handlers[list][i], list |-> list, ev |-> ev.id, state |-> "pending"]]

\* Handlers::dispatch
dispatch(ev) ==
    spawned' = spawned \o (IF RouteOf(ev.variant) = "none"
                            THEN <<>>
                            ELSE SpawnAll(RouteOf(ev.variant), ev))

\* ------------------------------------------------------------- manager.rs

ClientIds == {"a", "b"}

\* What is kept of the client of an identifier: how far the builder that the
\* last successful spawn returned has come ("none", "builder", "built", or
\* "dropped" when build failed), the two flags of its coordinator, and `live`:
\* a spawn of the identifier has succeeded and no shutdown has named it since.
NoCoord == [stage |-> "none", connected |-> FALSE, shutdown |-> FALSE, live |-> FALSE]

\* A call on the manager and what it returned; `live` and `built` keep which
\* of the identifiers it names were live, and live with a built client, when
\* it was made.
NoCall == [op |-> "none", id |-> "", ret |-> "none", n |-> 0, ids |-> {},
           live |-> {}, built |-> {}]

\* ------------------------------------------------- ffi.rs: the event buffer

\* FfiClient::new: vec![0u8; 64 * 1024], scaled
NoBuffer == [i \in 1..BufLen |-> 0]
NoFfi == [op |-> "none", code |-> 0, kind |-> "none", ret |-> Ok, data |-> <<>>,
          wrote |-> <<>>]

\* ------------------------------------------------------------------ inner.rs

\* Every operation is a method on `&self`: the task that calls it owns a
\* handle (holds) from the call to the return, and no operation changes who
\* owns one or touches the native handle's lifetime (lifeVars).

\* InnerClient::is_connected
is_connected == connected

\* parking_lot::Mutex::lock on InnerClient.ffi: blocks until the mutex is free
Lock(t) ==
    /\ ffiLock = Free
    /\ ffiLock' = t

\* The MutexGuard temporary dropped at the end of the statement
Unlock(t) ==
    /\ ffiLock = t
    /\ ffiLock' = Free

\* The pcs at which a task is inside a native call on the handle
NativePcs == {"polling", "connect_native", "send_native", "disc_native"}
InNative == {t \in Tasks : pc[t] \in NativePcs}

Finish(t, op, ret) ==
    /\ pc' = [pc EXCEPT ![t] = IF t \in AllRunners THEN "done" ELSE "idle"]
    /\ result' = [result EXCEPT ![t] = Returned(op, ret)]

Goto(t, where) == pc' = [pc EXCEPT ![t] = where]

\* A task entering an operation: nothing has been returned to it yet
Begin(t, where) ==
    /\ pc' = [pc EXCEPT ![t] = where]
    /\ result' = [result EXCEPT ![t] = NoResult]
    /\ lastCode' = [lastCode EXCEPT ![t] = 0]

\* ---- InnerClient::connect (inner.rs:44-50)

\* `self.ffi.lock()` of line 46, then FfiClient::connect enters the native call
ConnectLock(c) ==
    /\ pc[c] = "idle"
    /\ holds[c]
    /\ Lock(c)
    /\ Begin(c, "connect_native")
    /\ discNative' = [discNative EXCEPT ![c] = FALSE]
    /\ UNCHANGED <<connected, shutdown, arg, bytes, event, nativeOut, dispatched,
                   busVars, subVars, lifeVars, handlerVars, sideVars>>

\* Mutant: the flag is stored before the result of the native call is looked at.
ConnectReturnStoresFirst(c) ==
    /\ pc[c] = "connect_native"
    /\ \E code \in CallCodes :
         /\ lastCode' = [lastCode EXCEPT ![c] = code]
         /\ IF check_result(code) = Ok
            THEN Finish(c, "connect", Ok)
            ELSE Finish(c, "connect", check_result(code))
    /\ connected' = TRUE
    /\ Unlock(c)
    /\ UNCHANGED <<shutdown, arg, discNative, bytes, event, nativeOut,
                   dispatched, busVars, subVars, lifeVars, handlerVars, sideVars>>

\* wm_client_connect returns; check_result; `?` returns the error, the guard is
\* dropped either way
ConnectReturn(c) ==
    /\ pc[c] = "connect_native"
    /\ \E code \in CallCodes :
         /\ lastCode' = [lastCode EXCEPT ![c] = code]
         /\ IF check_result(code) = Ok
            THEN Goto(c, "connect_store") /\ UNCHANGED result
            ELSE Finish(c, "connect", check_result(code))
    /\ Unlock(c)
    /\ UNCHANGED <<connected, shutdown, arg, discNative, bytes, event, nativeOut,
                   dispatched, busVars, subVars, lifeVars, handlerVars, sideVars>>

\* line 47: self.connected.store(true); Ok(())
ConnectStore(c) ==
    /\ pc[c] = "connect_store"
    /\ connected' = TRUE
    /\ Finish(c, "connect", Ok)
    /\ UNCHANGED <<ffiLock, shutdown, arg, lastCode, discNative, bytes, event,
                   nativeOut, dispatched, busVars, subVars, lifeVars, handlerVars, sideVars>>

\* ---- InnerClient::send_message (inner.rs:110-112), FfiClient::send_message

\* `self.ffi.lock()`; the arguments are the caller's
SendLock(c) ==
    /\ pc[c] = "idle"
    /\ holds[c]
    /\ Lock(c)
    /\ \E j \in BOOLEAN, t \in BOOLEAN :
          arg' = [arg EXCEPT ![c] = [jid |-> j, text |-> t]]
    /\ Begin(c, "send_ffi")
    /\ discNative' = [discNative EXCEPT ![c] = FALSE]
    /\ UNCHANGED <<connected, shutdown, bytes, event, nativeOut, dispatched,
                   busVars, subVars, lifeVars, handlerVars, sideVars>>

\* Mutant: only the text is looked at before the call.
SendValidateTextOnly(c) ==
    /\ pc[c] = "send_ffi"
    /\ IF arg[c].text
       THEN Finish(c, "send", Err("Send")) /\ Unlock(c)
       ELSE Goto(c, "send_native") /\ UNCHANGED <<result, ffiLock>>
    /\ arg' = [arg EXCEPT ![c] = NoArg]
    /\ UNCHANGED <<connected, shutdown, lastCode, discNative, bytes, event,
                   nativeOut, dispatched, busVars, subVars, lifeVars, handlerVars, sideVars>>

\* ffi.rs:98-100: CString::new fails on an embedded NUL byte, first for the
\* recipient, then for the text, before the call
SendValidate(c) ==
    /\ pc[c] = "send_ffi"
    /\ IF arg[c].jid \/ arg[c].text
       THEN Finish(c, "send", Err("Send")) /\ Unlock(c)
       ELSE Goto(c, "send_native") /\ UNCHANGED <<result, ffiLock>>
    /\ arg' = [arg EXCEPT ![c] = NoArg]
    /\ UNCHANGED <<connected, shutdown, lastCode, discNative, bytes, event,
                   nativeOut, dispatched, busVars, subVars, lifeVars, handlerVars, sideVars>>

\* wm_send_message returns; check_result
SendReturn(c) ==
    /\ pc[c] = "send_native"
    /\ \E code \in CallCodes :
         /\ lastCode' = [lastCode EXCEPT ![c] = code]
         /\ Finish(c, "send", check_result(code))
    /\ Unlock(c)
    /\ UNCHANGED <<connected, shutdown, arg, discNative, bytes, event, nativeOut,
                   dispatched, busVars, subVars, lifeVars, handlerVars, sideVars>>

\* ---- InnerClient::disconnect (inner.rs:124-130)

\* line 125: shutdown_tx.send(true)
SignalShutdown == shutdown' = [value |-> TRUE, changed |-> TRUE]

DisconnectSignal(c) ==
    /\ pc[c] = "idle"
    /\ holds[c]
    /\ SignalShutdown
    /\ Begin(c, "disc_try")
    /\ discNative' = [discNative EXCEPT ![c] = FALSE]
    /\ UNCHANGED <<ffiLock, connected, arg, bytes, event, nativeOut, dispatched,
                   busVars, subVars, lifeVars, handlerVars, sideVars>>

\* Mutant: the native disconnect is issued without looking at the mutex.
DisconnectTryUnlocked(c) ==
    /\ pc[c] = "disc_try"
    /\ Goto(c, "disc_native")
    /\ discNative' = [discNative EXCEPT ![c] = TRUE]
    /\ UNCHANGED <<ffiLock, connected, shutdown, arg, result, lastCode, bytes, event,
                   nativeOut, dispatched, busVars, subVars, lifeVars, handlerVars, sideVars>>

\* Mutant: lock() in place of try_lock(): disconnect waits for the mutex.
DisconnectTryBlocking(c) ==
    /\ pc[c] = "disc_try"
    /\ Lock(c)
    /\ Goto(c, "disc_native")
    /\ discNative' = [discNative EXCEPT ![c] = TRUE]
    /\ UNCHANGED <<connected, shutdown, arg, result, lastCode, bytes, event,
                   nativeOut, dispatched, busVars, subVars, lifeVars, handlerVars, sideVars>>

\* line 126: try_lock; Some(guard) enters wm_client_disconnect, None skips it
DisconnectTry(c) ==
    /\ pc[c] = "disc_try"
    /\ IF ffiLock = Free
       THEN /\ ffiLock' = c
            /\ Goto(c, "disc_native")
            /\ discNative' = [discNative EXCEPT ![c] = TRUE]
       ELSE /\ Goto(c, "disc_store")
            /\ discNative' = [discNative EXCEPT ![c] = FALSE]
            /\ UNCHANGED ffiLock
    /\ UNCHANGED <<connected, shutdown, arg, result, lastCode, bytes, event,
                   nativeOut, dispatched, busVars, subVars, lifeVars, handlerVars, sideVars>>

\* line 127: `let _ = client.disconnect()`: whatever code comes back is dropped
DisconnectReturn(c) ==
    /\ pc[c] = "disc_native"
    /\ Unlock(c)
    /\ Goto(c, "disc_store")
    /\ UNCHANGED <<connected, shutdown, arg, result, lastCode, discNative, bytes,
                   event, nativeOut, dispatched, busVars, subVars, lifeVars, handlerVars, sideVars>>

\* Mutant: the flag is cleared only when the native disconnect was issued.
DisconnectStoreIfNative(c) ==
    /\ pc[c] = "disc_store"
    /\ connected' = IF discNative[c] THEN FALSE ELSE connected
    /\ Finish(c, "disconnect", Ok)
    /\ UNCHANGED <<ffiLock, shutdown, arg, lastCode, discNative, bytes, event,
                   nativeOut, dispatched, busVars, subVars, lifeVars, handlerVars, sideVars>>

\* Mutant: a one-shot notification, taken back once disconnect() is through.
DisconnectStoreResetsShutdown(c) ==
    /\ pc[c] = "disc_store"
    /\ connected' = FALSE
    /\ shutdown' = [shutdown EXCEPT !.value = FALSE]
    /\ Finish(c, "disconnect", Ok)
    /\ UNCHANGED <<ffiLock, arg, lastCode, discNative, bytes, event,
                   nativeOut, dispatched, busVars, subVars, lifeVars, handlerVars, sideVars>>

\* line 129: self.connected.store(false)
DisconnectStore(c) ==
    /\ pc[c] = "disc_store"
    /\ connected' = FALSE
    /\ Finish(c, "disconnect", Ok)
    /\ UNCHANGED <<ffiLock, shutdown, arg, lastCode, discNative, bytes, event,
                   nativeOut, dispatched, busVars, subVars, lifeVars, handlerVars, sideVars>>

\* ---- FfiClient::poll_event (ffi.rs:76-94)

\* What poll_event makes of the value n that wm_poll_event returned
poll_event(n) ==
    IF n < 0 /\ check_result(n) # Ok
    THEN [kind |-> "Err", err |-> check_result(n)]
    ELSE IF n = 0
         THEN [kind |-> "None", err |-> Ok]
         ELSE [kind |-> "Some", err |-> Ok]

\* A poll_event that hands out the whole buffer
event_bytesWholeBuffer(buf, n) == buf

\* line 93: self.event_buffer[..n as usize].to_vec()
event_bytes(buf, n) == SubSeq(buf, 1, n)

\* ---- InnerClient::run (inner.rs:52-104)

\* The locals of run() going out of scope: the EventBus clone is a Sender
RunExit(r, ret) ==
    /\ Finish(r, "run", ret)
    /\ BusDropTx

\* lines 55-58: clone the adapter handle, the bus, the registry, the receiver
RunStart(r) ==
    /\ pc[r] \in {"idle", "done"}
    /\ holds[r]
    /\ BusCloneTx
    /\ Begin(r, "check")
    /\ since' = [since EXCEPT ![r] = NoneSince]
    /\ UNCHANGED <<ffiLock, connected, shutdown, arg, discNative,
                   bytes, event, nativeOut, dispatched, tail, buffer, emitted,
                   subVars, holds, destroys, handlerVars, sideVars>>

\* Mutant: the loop never looks at the shutdown flag.
RunCheckIgnoresShutdown(r) ==
    /\ pc[r] = "check"
    /\ Goto(r, "lock")
    /\ UNCHANGED <<ffiLock, connected, shutdown, arg, result, lastCode, discNative,
                   bytes, event, nativeOut, dispatched, busVars, subVars, lifeVars, handlerVars, sideVars>>

\* Mutant: run() clears the connected flag when it leaves the loop.
RunCheckClearsConnected(r) ==
    /\ pc[r] = "check"
    /\ IF shutdown.value
       THEN RunExit(r, Ok) /\ connected' = FALSE
       ELSE Goto(r, "lock") /\ UNCHANGED <<result, numTx, tail, connected>>
    /\ UNCHANGED <<ffiLock, shutdown, arg, lastCode, discNative, bytes,
                   event, nativeOut, dispatched, buffer, emitted, subVars, lifeVars, handlerVars, sideVars>>

\* lines 65-68: `if *shutdown.borrow() { break }`, then Ok(())
RunCheck(r) ==
    /\ pc[r] = "check"
    /\ IF shutdown.value
       THEN RunExit(r, Ok)
       ELSE Goto(r, "lock") /\ UNCHANGED <<result, numTx, tail>>
    /\ UNCHANGED <<ffiLock, connected, shutdown, arg, lastCode, discNative, bytes,
                   event, nativeOut, dispatched, buffer, emitted, subVars, lifeVars, handlerVars, sideVars>>

\* line 70: ffi.lock(), then poll_event enters wm_poll_event
RunLock(r) ==
    /\ pc[r] = "lock"
    /\ Lock(r)
    /\ Goto(r, "polling")
    /\ since' = [since EXCEPT ![r].polls = IF shutdown.value THEN Bump(@) ELSE @]
    /\ UNCHANGED <<connected, shutdown, arg, result, lastCode, discNative, bytes,
                   event, nativeOut, dispatched, busVars, subVars, holds, destroys,
                   handlerVars, sideVars>>

\* Mutant: a poll that found nothing goes straight back to the top of the loop.
RunPollReturnBusyLoops(r, envs) ==
    /\ pc[r] = "polling"
    /\ Unlock(r)
    /\ \/ \E n \in PollErrCodes \cup {0} :
            /\ lastCode' = [lastCode EXCEPT ![r] = n]
            /\ IF poll_event(n).kind = "Err"
               THEN RunExit(r, poll_event(n).err)
               ELSE Goto(r, "check") /\ UNCHANGED <<result, numTx, tail>>
            /\ UNCHANGED <<bytes, nativeOut>>
       \/ \E env \in envs :
            /\ Len(nativeOut) < MaxEvents
            /\ poll_event(1).kind = "Some"
            /\ lastCode' = [lastCode EXCEPT ![r] = 1]
            /\ nativeOut' = Append(nativeOut, env)
            /\ bytes' = [bytes EXCEPT ![r] = [id |-> Len(nativeOut) + 1, env |-> env]]
            /\ Goto(r, "decode")
            /\ UNCHANGED <<result, numTx, tail>>
    /\ UNCHANGED <<connected, shutdown, arg, discNative, event, dispatched, buffer,
                   emitted, subVars, lifeVars, handlerVars, sideVars>>

\* Mutant: the guard of line 70 lives on after the poll has returned.
RunPollReturnKeepsLock(r, envs) ==
    /\ pc[r] = "polling"
    /\ ffiLock' = ffiLock
    /\ \/ \E n \in PollErrCodes \cup {0} :
            /\ lastCode' = [lastCode EXCEPT ![r] = n]
            /\ IF poll_event(n).kind = "Err"
               THEN RunExit(r, poll_event(n).err)
               ELSE Goto(r, "wait") /\ UNCHANGED <<result, numTx, tail>>
            /\ UNCHANGED <<bytes, nativeOut>>
       \/ \E env \in envs :
            /\ Len(nativeOut) < MaxEvents
            /\ poll_event(1).kind = "Some"
            /\ lastCode' = [lastCode EXCEPT ![r] = 1]
            /\ nativeOut' = Append(nativeOut, env)
            /\ bytes' = [bytes EXCEPT ![r] = [id |-> Len(nativeOut) + 1, env |-> env]]
            /\ Goto(r, "decode")
            /\ UNCHANGED <<result, numTx, tail>>
    /\ UNCHANGED <<connected, shutdown, arg, discNative, event, dispatched, buffer,
                   emitted, subVars, lifeVars, handlerVars, sideVars>>

\* Mutant: poll_event hands out the adapter's buffer itself, not a copy of
\* it: the bytes a run() task is still to decode are those of the last poll.
RunPollReturnSharesBuffer(r, envs) ==
    /\ pc[r] = "polling"
    /\ Unlock(r)
    /\ \/ \E n \in PollErrCodes \cup {0} :
            /\ lastCode' = [lastCode EXCEPT ![r] = n]
            /\ IF poll_event(n).kind = "Err"
               THEN RunExit(r, poll_event(n).err)
               ELSE Goto(r, "wait") /\ UNCHANGED <<result, numTx, tail>>
            /\ UNCHANGED <<bytes, nativeOut>>
       \/ \E env \in envs :
            /\ Len(nativeOut) < MaxEvents
            /\ poll_event(1).kind = "Some"
            /\ lastCode' = [lastCode EXCEPT ![r] = 1]
            /\ nativeOut' = Append(nativeOut, env)
            /\ bytes' = [t \in AllRunners |->
                           IF t = r \/ pc[t] = "decode"
                           THEN [id |-> Len(nativeOut) + 1, env |-> env]
                           ELSE bytes[t]]
            /\ Goto(r, "decode")
            /\ UNCHANGED <<result, numTx, tail>>
    /\ UNCHANGED <<connected, shutdown, arg, discNative, event, dispatched, buffer,
                   emitted, subVars, lifeVars, handlerVars, sideVars>>

\* line 70: wm_poll_event returns n; the guard is dropped at the end of the
\* block; `?` returns a poll error from run()
RunPollReturn(r, envs) ==
    /\ pc[r] = "polling"
    /\ Unlock(r)
    /\ \/ \E n \in PollErrCodes \cup {0} :
            /\ lastCode' = [lastCode EXCEPT ![r] = n]
            /\ IF poll_event(n).kind = "Err"
               THEN RunExit(r, poll_event(n).err)
               ELSE Goto(r, "wait") /\ UNCHANGED <<result, numTx, tail>>
            /\ UNCHANGED <<bytes, nativeOut>>
       \/ \E env \in envs :
            /\ Len(nativeOut) < MaxEvents
            /\ poll_event(1).kind = "Some"
            /\ lastCode' = [lastCode EXCEPT ![r] = 1]
            /\ nativeOut' = Append(nativeOut, env)
            /\ bytes' = [bytes EXCEPT ![r] = [id |-> Len(nativeOut) + 1, env |-> env]]
            /\ Goto(r, "decode")
            /\ UNCHANGED <<result, numTx, tail>>
    /\ UNCHANGED <<connected, shutdown, arg, discNative, event, dispatched, buffer,
                   emitted, subVars, lifeVars, handlerVars, sideVars>>

\* Mutant: an envelope that does not decode ends run() with the parse error.
RunDecodeFatal(r) ==
    /\ pc[r] = "decode"
    /\ LET d == Decode(bytes[r].env) IN
         IF d.ok
         THEN /\ event' = [event EXCEPT ![r] = [d.event EXCEPT !.id = bytes[r].id]]
              /\ Goto(r, "dispatch")
              /\ UNCHANGED <<result, numTx, tail>>
         ELSE /\ RunExit(r, Err("Parse"))
              /\ UNCHANGED event
    /\ bytes' = [bytes EXCEPT ![r] = NoBytes]
    /\ UNCHANGED <<ffiLock, connected, shutdown, arg, lastCode, discNative,
                   nativeOut, dispatched, buffer, emitted, subVars, lifeVars, handlerVars, sideVars>>

\* lines 88-90: the `if let Ok(raw) ... && let Ok(event) ...` chain
RunDecode(r) ==
    /\ pc[r] = "decode"
    /\ LET d == Decode(bytes[r].env) IN
         IF d.ok
         THEN /\ event' = [event EXCEPT ![r] = [d.event EXCEPT !.id = bytes[r].id]]
              /\ Goto(r, "dispatch")
         ELSE /\ Goto(r, "check")
              /\ UNCHANGED event
    /\ bytes' = [bytes EXCEPT ![r] = NoBytes]
    /\ UNCHANGED <<ffiLock, connected, shutdown, arg, result, lastCode, discNative,
                   nativeOut, dispatched, busVars, subVars, lifeVars, handlerVars, sideVars>>

\* Mutant: the two calls swapped, the bus is served before the registry.
RunDispatchEmitsFirst(r) ==
    /\ pc[r] = "dispatch"
    /\ emit(event[r])
    /\ Goto(r, "emit")
    /\ UNCHANGED <<ffiLock, connected, shutdown, arg, result, lastCode, discNative,
                   bytes, event, nativeOut, dispatched, numTx, subVars, lifeVars, handlerVars, sideVars>>

\* line 92: handlers.dispatch(&event)
RunDispatch(r) ==
    /\ pc[r] = "dispatch"
    /\ dispatched' = Append(dispatched, event[r])
    /\ dispatch(event[r])
    /\ Goto(r, "emit")
    /\ UNCHANGED <<ffiLock, connected, shutdown, arg, result, lastCode, discNative,
                   bytes, event, nativeOut, busVars, subVars, lifeVars, handlers,
                   sideVars>>

\* Mutant: run() joins the handler tasks of the event before it publishes it.
RunEmitAwaitsHandlers(r) ==
    /\ pc[r] = "emit"
    /\ \A k \in DOMAIN spawned :
          spawned[k].ev = event[r].id => spawned[k].state # "pending"
    /\ emit(event[r])
    /\ event' = [event EXCEPT ![r] = NoEvent]
    /\ Goto(r, "check")
    /\ UNCHANGED <<ffiLock, connected, shutdown, arg, result, lastCode, discNative,
                   bytes, nativeOut, dispatched, numTx, subVars, lifeVars,
                   handlerVars, sideVars>>

\* Mutant: an Unknown event is discarded instead of published.
RunEmitSkipsUnknown(r) ==
    /\ pc[r] = "emit"
    /\ IF event[r].variant = "Unknown"
       THEN UNCHANGED <<emitted, tail, buffer>>
       ELSE emit(event[r])
    /\ event' = [event EXCEPT ![r] = NoEvent]
    /\ Goto(r, "check")
    /\ UNCHANGED <<ffiLock, connected, shutdown, arg, result, lastCode, discNative,
                   bytes, nativeOut, dispatched, numTx, subVars, lifeVars, handlerVars, sideVars>>

\* Mutant: after publishing, the loop polls again without looking at the
\* shutdown flag.
RunEmitThenPolls(r) ==
    /\ pc[r] = "emit"
    /\ emit(event[r])
    /\ event' = [event EXCEPT ![r] = NoEvent]
    /\ Goto(r, "lock")
    /\ since' = [since EXCEPT ![r].emits = IF shutdown.value THEN Bump(@) ELSE @]
    /\ UNCHANGED <<ffiLock, connected, shutdown, arg, result, lastCode, discNative,
                   bytes, nativeOut, dispatched, numTx, subVars, holds, destroys,
                   handlerVars, sideVars>>

\* Mutant: the error of the send, which the bus returns when nobody is
\* subscribed, is returned from run() with `?`.
RunEmitFailsWithoutReceiver(r) ==
    /\ pc[r] = "emit"
    /\ emit(event[r])
    /\ event' = [event EXCEPT ![r] = NoEvent]
    /\ IF tail.rx_cnt = 0
       THEN /\ pc' = [pc EXCEPT ![r] = "done"]
            /\ result' = [result EXCEPT ![r] = Returned("run", Err("Send"))]
       ELSE Goto(r, "check") /\ UNCHANGED result
    /\ since' = [since EXCEPT ![r].emits = IF shutdown.value THEN Bump(@) ELSE @]
    /\ UNCHANGED <<ffiLock, connected, shutdown, arg, lastCode, discNative,
                   bytes, nativeOut, dispatched, numTx, subVars, holds, destroys,
                   handlerVars, sideVars>>

\* line 93: bus.emit(event)
RunEmit(r) ==
    /\ pc[r] = "emit"
    /\ emit(event[r])
    /\ event' = [event EXCEPT ![r] = NoEvent]
    /\ Goto(r, "check")
    /\ since' = [since EXCEPT ![r].emits = IF shutdown.value THEN Bump(@) ELSE @]
    /\ UNCHANGED <<ffiLock, connected, shutdown, arg, result, lastCode, discNative,
                   bytes, nativeOut, dispatched, numTx, subVars, holds, destroys,
                   handlerVars, sideVars>>

\* lines 96-97: the sleep arm of select! completes
RunWake(r) ==
    /\ pc[r] = "wait"
    /\ Goto(r, "check")
    /\ UNCHANGED <<ffiLock, connected, shutdown, arg, result, lastCode, discNative,
                   bytes, event, nativeOut, dispatched, busVars, subVars, lifeVars, handlerVars, sideVars>>

\* line 98: the shutdown.changed() arm of select! completes: break, Ok(()).
\* The receiver is a clone of self.shutdown_rx, which never marks a version
\* seen, so changed() is ready as soon as anything was sent since creation.
RunWaitShutdown(r) ==
    /\ pc[r] = "wait"
    /\ shutdown.changed
    /\ RunExit(r, Ok)
    /\ UNCHANGED <<ffiLock, connected, shutdown, arg, lastCode, discNative, bytes,
                   event, nativeOut, dispatched, buffer, emitted, subVars, lifeVars, handlerVars, sideVars>>

\* ---- the bus on its own: any holder of an EventBus may emit, clone or drop it

\* The events a producer hands to the bus when the bus is looked at alone
BusVariants == {"Message"}

BusEmit ==
    /\ numTx > 0
    /\ Len(emitted) < MaxEmits
    /\ \E v \in BusVariants :
         emit([MkEvent(v, "", NoData) EXCEPT !.id = Len(emitted) + 1])
    /\ UNCHANGED <<numTx, coordVars, subVars, lifeVars, handlerVars, sideVars>>

\* inner.rs:56: run() clones the bus
BusClone ==
    /\ numTx > 0
    /\ numTx <= Cardinality(Runners)
    /\ BusCloneTx
    /\ UNCHANGED <<tail, buffer, emitted, coordVars, subVars, lifeVars, handlerVars, sideVars>>

\* A clone going out of scope (inner.rs:104), or the coordinator's own handle
BusDrop ==
    /\ numTx > 0
    /\ BusDropTx
    /\ UNCHANGED <<buffer, emitted, coordVars, subVars, lifeVars, handlerVars, sideVars>>

\* ---- InnerClient::events (inner.rs:106-108) and the stream's consumer

Events(s) == subscribe(s) /\ UNCHANGED <<coordVars, lifeVars, handlerVars, sideVars>>
StreamPoll(s) == poll_next(s) /\ UNCHANGED <<coordVars, lifeVars, handlerVars, sideVars>>
StreamDrop(s) == drop_stream(s) /\ UNCHANGED <<coordVars, lifeVars, handlerVars, sideVars>>

\* ---- ownership: WhatsApp is Clone over Arc<InnerClient> (client.rs:13-16)

\* Drop for FfiClient (ffi.rs:139-147): wm_client_destroy on the handle
FfiClientDrop == destroys' = destroys + 1

\* Drop for InnerClient (inner.rs:137-141) signals shutdown; then the fields
\* go: the Arc of the adapter, of which run() holds no clone any more (run()
\* borrows the coordinator for as long as it lasts), and the bus's Sender.
DropInner ==
    /\ SignalShutdown
    /\ FfiClientDrop
    /\ BusDropTx

\* Mutant: the coordinator goes away without signaling shutdown.
ReleaseHandleSilent(t) ==
    /\ holds[t]
    /\ pc[t] \in {"idle", "done"}
    /\ holds' = [holds EXCEPT ![t] = FALSE]
    /\ IF \A u \in Tasks \ {t} : ~holds[u]
       THEN FfiClientDrop /\ BusDropTx /\ UNCHANGED shutdown
       ELSE UNCHANGED <<shutdown, destroys, numTx, tail>>
    /\ UNCHANGED <<ffiLock, connected, pc, arg, result, lastCode, discNative, bytes,
                   event, nativeOut, dispatched, buffer, emitted, subVars, since,
                   handlerVars, sideVars>>

\* Mutant: every handle destroys the native handle when it is dropped.
ReleaseHandleDestroysEach(t) ==
    /\ holds[t]
    /\ pc[t] \in {"idle", "done"}
    /\ holds' = [holds EXCEPT ![t] = FALSE]
    /\ FfiClientDrop
    /\ IF \A u \in Tasks \ {t} : ~holds[u]
       THEN SignalShutdown /\ BusDropTx
       ELSE UNCHANGED <<shutdown, numTx, tail>>
    /\ UNCHANGED <<ffiLock, connected, pc, arg, result, lastCode, discNative, bytes,
                   event, nativeOut, dispatched, buffer, emitted, subVars, since,
                   handlerVars, sideVars>>

\* A task drops its WhatsApp handle.  A handle is borrowed by the operation
\* running on it, so it can only go between operations; the last one to go
\* drops the coordinator.
ReleaseHandle(t) ==
    /\ holds[t]
    /\ pc[t] \in {"idle", "done"}
    /\ holds' = [holds EXCEPT ![t] = FALSE]
    /\ IF \A u \in Tasks \ {t} : ~holds[u]
       THEN DropInner
       ELSE UNCHANGED <<shutdown, destroys, numTx, tail>>
    /\ UNCHANGED <<ffiLock, connected, pc, arg, result, lastCode, discNative, bytes,
                   event, nativeOut, dispatched, buffer, emitted, subVars, since,
                   handlerVars, sideVars>>

\* ------------------------------------------------------------ specification

\* InnerClient::new (inner.rs:30-41) and EventBus::new
ConstructedBy(reg, b) ==
    /\ ffiLock = Free
    /\ connected = FALSE
    /\ shutdown = [value |-> FALSE, changed |-> FALSE]
    /\ pc = [t \in Tasks |-> "idle"]
    /\ arg = [t \in Callers |-> NoArg]
    /\ result = [t \in Tasks |-> NoResult]
    /\ lastCode = [t \in Tasks |-> 0]
    /\ discNative = [t \in Callers |-> FALSE]
    /\ bytes = [t \in AllRunners |-> NoBytes]
    /\ event = [t \in AllRunners |-> NoEvent]
    /\ nativeOut = <<>>
    /\ dispatched = <<>>
    /\ emitted = <<>>
    /\ tail = InitTail
    /\ buffer = InitBuffer
    /\ numTx = 1
    /\ sub = [s \in Subs |-> NoSub]
    /\ subAt = [s \in Subs |-> 0]
    /\ got = [s \in Subs |-> <<>>]
    /\ skipped = [s \in Subs |-> 0]
    /\ rxLast = [s \in Subs |-> "None"]
    /\ pollLast = [s \in Subs |-> "None"]
    /\ holds = [t \in Tasks |-> t # "r2"]
    /\ destroys = 0
    /\ since = [t \in AllRunners |-> NoneSince]
    /\ handlers = reg
    /\ spawned = <<>>
    /\ clients = {}
    /\ coord = [id \in ClientIds |-> NoCoord]
    /\ mgrLast = NoCall
    /\ event_buffer = NoBuffer
    /\ ffiLast = NoFfi
    /\ builder = b

\* A coordinator made directly from an adapter, with no builder in play
Constructed(reg) == ConstructedBy(reg, NoBuilder)

\* The state after construction with no callback registered
Init == Constructed(NoHandlers)

RunStep(r, envs) ==
    \/ RunStart(r) \/ RunCheck(r) \/ RunLock(r) \/ RunPollReturn(r, envs)
    \/ RunDecode(r) \/ RunDispatch(r) \/ RunEmit(r) \/ RunWake(r)
    \/ RunWaitShutdown(r)

ConnectStep(c) == ConnectLock(c) \/ ConnectReturn(c) \/ ConnectStore(c)

SendStep(c) == SendLock(c) \/ SendValidate(c) \/ SendReturn(c)

DisconnectStep(c) ==
    \/ DisconnectSignal(c) \/ DisconnectTry(c)
    \/ DisconnectReturn(c) \/ DisconnectStore(c)

CallerStep(c) == ConnectStep(c) \/ SendStep(c) \/ DisconnectStep(c)

Next ==
    \/ \E r \in Runners : RunStep(r, LifecycleEnvelopes)
    \/ \E c \in Callers : CallerStep(c)

Spec == Init /\ [][Next]_vars

\* The steps of a run() in flight that wait for nothing but the scheduler and
\* the return of wm_poll_event.
RunProgress(r) ==
    \/ RunCheck(r) \/ RunPollReturn(r, LifecycleEnvelopes)
    \/ RunDecode(r) \/ RunDispatch(r) \/ RunEmit(r) \/ RunWake(r)
    \/ RunWaitShutdown(r)

\* The steps by which a caller inside the adapter mutex leaves it again.
CallerLeaves(c) ==
    \/ ConnectReturn(c) \/ SendValidate(c) \/ SendReturn(c)
    \/ DisconnectReturn(c)

\* Fair scheduling: a spawned task that can run does run, every native call
\* returns, and a task blocked in Mutex::lock gets the mutex if it is free
\* again and again (parking_lot hands the mutex over fairly in the end).
SpecFair ==
    /\ Init /\ [][Next]_vars
    /\ \A r \in Runners : WF_vars(RunProgress(r)) /\ SF_vars(RunLock(r))
    /\ \A c \in Callers : WF_vars(CallerLeaves(c))

\* The event pump: one run() task with every kind of envelope, a caller that
\* disconnects, and one consumer of the event stream.
NextPump ==
    \/ \E r \in Runners : RunStep(r, PollEnvelopes)
    \/ DisconnectStep("c1")
    \/ Events("s1") \/ StreamPoll("s1")

SpecPump == Init /\ [][NextPump]_vars

\* The bus and its subscribers on their own.
NextBus ==
    \/ BusEmit \/ BusClone \/ BusDrop
    \/ \E s \in Subs : Events(s) \/ StreamPoll(s) \/ StreamDrop(s)

SpecBus == Init /\ [][NextBus]_vars

\* A run() that has just polled its first envelope, of a coordinator built
\* with the callback registry reg.
Polled(env, reg) ==
    /\ ffiLock = Free
    /\ connected = FALSE
    /\ shutdown = [value |-> FALSE, changed |-> FALSE]
    /\ pc = [t \in Tasks |-> IF t = "r1" THEN "decode" ELSE "idle"]
    /\ arg = [t \in Callers |-> NoArg]
    /\ result = [t \in Tasks |-> NoResult]
    /\ lastCode = [t \in Tasks |-> IF t = "r1" THEN 1 ELSE 0]
    /\ discNative = [t \in Callers |-> FALSE]
    /\ bytes = [t \in AllRunners |->
                  IF t = "r1" THEN [id |-> 1, env |-> env] ELSE NoBytes]
    /\ event = [t \in AllRunners |-> NoEvent]
    /\ nativeOut = <<env>>
    /\ dispatched = <<>>
    /\ emitted = <<>>
    /\ tail = InitTail
    /\ buffer = InitBuffer
    /\ numTx = 2
    /\ sub = [s \in Subs |-> NoSub]
    /\ subAt = [s \in Subs |-> 0]
    /\ got = [s \in Subs |-> <<>>]
    /\ skipped = [s \in Subs |-> 0]
    /\ rxLast = [s \in Subs |-> "None"]
    /\ pollLast = [s \in Subs |-> "None"]
    /\ holds = [t \in Tasks |-> t # "r2"]
    /\ destroys = 0
    /\ since = [t \in AllRunners |-> NoneSince]
    /\ handlers = reg
    /\ spawned = <<>>
    /\ clients = {}
    /\ coord = [id \in ClientIds |-> NoCoord]
    /\ mgrLast = NoCall
    /\ event_buffer = NoBuffer
    /\ ffiLast = NoFfi
    /\ builder = NoBuilder

InitDecoder == \E env \in AllEnvelopes : Polled(env, NoHandlers)

\* The decoder inside the pump: the first envelope is any envelope there is,
\* and run() goes on polling from there.
NextDecoder ==
    \E r \in Runners :
        \/ RunCheck(r) \/ RunLock(r) \/ RunPollReturn(r, PollEnvelopes)
        \/ RunDecode(r) \/ RunDispatch(r) \/ RunEmit(r) \/ RunWake(r)

SpecDecoder == InitDecoder /\ [][NextDecoder]_vars

\* The body of a spawned handler task runs to its end ...
HandlerReturns(i) ==
    /\ spawned[i].state = "pending"
    /\ spawned' = [spawned EXCEPT ![i].state = "returned"]
    /\ UNCHANGED <<coordVars, busVars, subVars, lifeVars, handlers, sideVars>>

\* Mutant: the panic of a handler unwinds into run(), which ends with it.
HandlerPanicUnwinds(i) ==
    /\ spawned[i].state = "pending"
    /\ pc["r1"] = "check"
    /\ spawned' = [spawned EXCEPT ![i].state = "panicked"]
    /\ RunExit("r1", Err("Panic"))
    /\ UNCHANGED <<ffiLock, connected, shutdown, arg, lastCode, discNative, bytes,
                   event, nativeOut, dispatched, buffer, emitted, subVars,
                   lifeVars, handlers, sideVars>>

\* ... or panics: the runtime catches the panic at the task boundary and keeps
\* it in the JoinHandle, which dispatch has dropped.
HandlerPanics(i) ==
    /\ spawned[i].state = "pending"
    /\ spawned' = [spawned EXCEPT ![i].state = "panicked"]
    /\ UNCHANGED <<coordVars, busVars, subVars, lifeVars, handlers, sideVars>>

HandlerStep == \E i \in DOMAIN spawned : HandlerReturns(i) \/ HandlerPanics(i)

\* The registries a builder can hand over: each callback registered with one
\* of the on_<kind> functions, in either order, or not at all.
RegisterOpt(reg, list, h) == IF list = "none" THEN reg ELSE register(reg, list, h)

Registries ==
    {RegisterOpt(RegisterOpt(NoHandlers, l1, hs[1]), l2, hs[2]) :
        l1 \in Registerable \cup {"none"}, l2 \in Registerable \cup {"none"},
        hs \in {<<"h1", "h2">>, <<"h2", "h1">>}}

\* Routing: one envelope of any kind, handled by a coordinator that was built
\* with any registry, and the handler tasks it spawns.
InitRouting == \E env \in AllEnvelopes, reg \in Registries : Polled(env, reg)

NextRouting ==
    \/ \E r \in Runners : RunDecode(r) \/ RunDispatch(r) \/ RunEmit(r)
    \/ HandlerStep

SpecRouting == InitRouting /\ [][NextRouting]_vars

\* ---- the registry as the builder fills it (builder.rs:44-89)

\* on_qr / on_message / on_connected / on_disconnected: the builder is consumed
\* by build(), so every registration comes before the first run()
RegisterHandler(lst, h) ==
    /\ \A r \in Runners : pc[r] = "idle"
    /\ \A l \in HandlerLists : \A k \in DOMAIN handlers[l] : handlers[l][k] # h
    /\ handlers' = register(handlers, lst, h)
    /\ UNCHANGED <<coordVars, busVars, subVars, lifeVars, spawned, sideVars>>

\* The envelopes of a session with events of two kinds
TwoKindEnvelopes ==
    {Envelope(TRUE, "message", "good"), Envelope(TRUE, "connected", NoData)}

\* A builder registering callbacks, then the run() of the client it built.
NextRegistry ==
    \/ \E lst \in Registerable, h \in HandlerIds : RegisterHandler(lst, h)
    \/ \E r \in Runners :
          \/ RunStart(r) \/ RunCheck(r) \/ RunLock(r)
          \/ RunPollReturn(r, TwoKindEnvelopes)
          \/ RunDecode(r) \/ RunDispatch(r) \/ RunEmit(r) \/ RunWake(r)

SpecRegistry == Init /\ [][NextRegistry]_vars

\* ---- FfiClient on its own (ffi.rs)

\* The values an i32 result code is drawn from, and the bytes of an event
ResultCodes == (WM_ERR_BUFFER_TOO_SMALL - 2)..2
Bytes == {1, 2}

\* check_result(code) for any code whatever
CheckResult ==
    \E code \in ResultCodes :
        /\ ffiLast' = [op |-> "check_result", code |-> code, kind |-> "Result",
                       ret |-> check_result(code), data |-> <<>>, wrote |-> <<>>]
        /\ UNCHANGED <<coordVars, busVars, subVars, lifeVars, handlerVars, mgrVars,
                       event_buffer, builder>>

\* poll_event(): wm_poll_event writes an event of n bytes at the start of the
\* buffer and returns n, or writes nothing and returns 0 or an error code
PollEvent ==
    \E n \in ResultCodes \cup (1..BufLen) :
        \E wrote \in [1..(IF n > 0 THEN n ELSE 0) -> Bytes] :
            /\ n <= BufLen
            /\ event_buffer' = [i \in 1..BufLen |->
                                  IF i <= Len(wrote) THEN wrote[i] ELSE event_buffer[i]]
            /\ ffiLast' = [op |-> "poll_event", code |-> n,
                           kind |-> poll_event(n).kind, ret |-> poll_event(n).err,
                           data |-> IF poll_event(n).kind = "Some"
                                    THEN event_bytes(event_buffer', n) ELSE <<>>,
                           wrote |-> wrote]
            /\ UNCHANGED <<coordVars, busVars, subVars, lifeVars, handlerVars, mgrVars, builder>>

NextAdapter == CheckResult \/ PollEvent

SpecAdapter == Init /\ [][NextAdapter]_vars

\* ---- WhatsAppManager (manager.rs)

Call(op, id, ret, n, ids) ==
    LET named == IF id = "" THEN ClientIds ELSE {id} IN
    [op |-> op, id |-> id, ret |-> ret, n |-> n, ids |-> ids,
     live |-> {i \in named : coord[i].live},
     built |-> {i \in named : coord[i].live /\ coord[i].stage = "built"}]

\* WhatsAppManager::get, list and count read the map
get(id) == IF id \in clients THEN "Some" ELSE "None"
list == clients
count == Cardinality(clients)

\* InnerClient::disconnect as the manager sees it: shutdown is signaled and
\* the flag is cleared, whatever the native call returns
CoordDisconnect(c) == [c EXCEPT !.shutdown = TRUE, !.connected = FALSE]

\* spawn(id, path): refuse an identifier that has an entry, else hand out a
\* builder.  Nothing is put into the map, here or anywhere else.
MgrSpawn(id) ==
    /\ IF id \in clients
       THEN /\ mgrLast' = Call("spawn", id, "Err(Init)", 0, {})
            /\ coord' = coord
       ELSE /\ mgrLast' = Call("spawn", id, "Ok", 0, {})
            /\ coord' = [coord EXCEPT ![id] =
                            [stage |-> "builder", connected |-> FALSE,
                             shutdown |-> FALSE, live |-> TRUE]]
    /\ clients' = clients
    /\ UNCHANGED <<coordVars, busVars, subVars, lifeVars, handlerVars, adapterVars, builder>>

\* WhatsAppBuilder::build on the builder spawn returned: connect, and on
\* failure return the error, dropping the client
MgrBuild(id) ==
    /\ coord[id].stage = "builder"
    /\ \E code \in CallCodes :
          coord' = [coord EXCEPT ![id] =
                      IF check_result(code) = Ok
                      THEN [@ EXCEPT !.stage = "built", !.connected = TRUE]
                      ELSE [@ EXCEPT !.stage = "dropped", !.shutdown = TRUE]]
    /\ UNCHANGED <<clients, mgrLast>>
    /\ UNCHANGED <<coordVars, busVars, subVars, lifeVars, handlerVars, adapterVars, builder>>

\* WhatsApp::disconnect, called by the application on the client it built
ClientDisconnect(id) ==
    /\ coord[id].stage = "built"
    /\ coord' = [coord EXCEPT ![id] = CoordDisconnect(@)]
    /\ UNCHANGED <<clients, mgrLast>>
    /\ UNCHANGED <<coordVars, busVars, subVars, lifeVars, handlerVars, adapterVars, builder>>

MgrGet(id) ==
    /\ mgrLast' = Call("get", id, get(id), 0, {})
    /\ UNCHANGED <<clients, coord>>
    /\ UNCHANGED <<coordVars, busVars, subVars, lifeVars, handlerVars, adapterVars, builder>>

\* shutdown(id): `if let Some((_, client)) = self.clients.remove(id)`
MgrShutdown(id) ==
    /\ mgrLast' = Call("shutdown", id, "()", 0, {})
    /\ clients' = clients \ {id}
    /\ coord' = [coord EXCEPT ![id] =
                    [(IF id \in clients THEN CoordDisconnect(@) ELSE @)
                        EXCEPT !.live = FALSE]]
    /\ UNCHANGED <<coordVars, busVars, subVars, lifeVars, handlerVars, adapterVars, builder>>

\* shutdown_all(): disconnect every value of the map, then clear it
MgrShutdownAll ==
    /\ mgrLast' = Call("shutdown_all", "", "()", 0, {})
    /\ clients' = {}
    /\ coord' = [i \in ClientIds |->
                    [(IF i \in clients THEN CoordDisconnect(coord[i]) ELSE coord[i])
                        EXCEPT !.live = FALSE]]
    /\ UNCHANGED <<coordVars, busVars, subVars, lifeVars, handlerVars, adapterVars, builder>>

MgrCount ==
    /\ mgrLast' = Call("count", "", "usize", count, {})
    /\ UNCHANGED <<clients, coord>>
    /\ UNCHANGED <<coordVars, busVars, subVars, lifeVars, handlerVars, adapterVars, builder>>

MgrList ==
    /\ mgrLast' = Call("list", "", "Vec", 0, list)
    /\ UNCHANGED <<clients, coord>>
    /\ UNCHANGED <<coordVars, busVars, subVars, lifeVars, handlerVars, adapterVars, builder>>

\* The manager, the applications building and disconnecting the clients of
\* the builders it hands out.
NextManager ==
    \/ \E id \in ClientIds :
          \/ MgrSpawn(id) \/ MgrBuild(id) \/ ClientDisconnect(id)
          \/ MgrGet(id) \/ MgrShutdown(id)
    \/ MgrShutdownAll \/ MgrCount \/ MgrList

SpecManager == Init /\ [][NextManager]_vars

\* The envelopes of a session in which messages come in
MessageEnvelopes == {Envelope(TRUE, "message", "good")}

\* The registries with callbacks for messages only
MessageRegistries ==
    {reg \in Registries :
        /\ reg["message"] # <<>>
        /\ \A l \in HandlerLists \ {"message"} : reg[l] = <<>>}

\* The pump with callbacks: a coordinator built with callbacks for messages,
\* its run() task and the handler tasks.  Nobody signals shutdown, so the
\* shutdown arm of select! never completes.
InitHandlers == \E reg \in MessageRegistries : Constructed(reg)

NextHandlers ==
    \/ \E r \in Runners :
          \/ RunStart(r) \/ RunCheck(r) \/ RunLock(r)
          \/ RunPollReturn(r, MessageEnvelopes)
          \/ RunDecode(r) \/ RunDispatch(r) \/ RunEmit(r) \/ RunWake(r)
    \/ HandlerStep

\* The same with a caller that disconnects
NextHandlersShutdown ==
    \/ \E r \in Runners : RunStep(r, MessageEnvelopes)
    \/ DisconnectStep("c1")
    \/ HandlerStep

SpecHandlers == InitHandlers /\ [][NextHandlers]_vars

\* The steps of run() in that session that need nothing but a scheduler
MessageRunProgress(r) ==
    \/ RunCheck(r) \/ RunPollReturn(r, MessageEnvelopes)
    \/ RunDecode(r) \/ RunDispatch(r) \/ RunEmit(r) \/ RunWake(r)
    \/ RunWaitShutdown(r)

\* The same pump under fair scheduling of run() and of the caller, with one
\* callback.  Nothing is assumed of the handler tasks: a callback is code of
\* the application and may never come to an end.
InitOneHandler == Constructed(register(NoHandlers, "message", "h1"))

SpecHandlersFair ==
    /\ InitOneHandler /\ [][NextHandlersShutdown]_vars
    /\ \A r \in Runners : WF_vars(MessageRunProgress(r)) /\ SF_vars(RunLock(r))
    /\ WF_vars(DisconnectReturn("c1"))

\* The envelopes by which the native layer reports the end of the session.
SessionEnvelopes ==
    {Envelope(TRUE, "disconnected", NoData),
     Envelope(TRUE, "logged_out", "good")}

\* The life of one coordinator: a run() task, one caller that connects and
\* disconnects, and every task dropping its handle when it is done with it.
NextLife ==
    \/ \E r \in Runners : RunStep(r, SessionEnvelopes)
    \/ ConnectStep("c1") \/ DisconnectStep("c1")
    \/ \E t \in Tasks : ReleaseHandle(t)

SpecLife == Init /\ [][NextLife]_vars

\* ------------------------------------------------------------------ claims

ErrorTags == {"Init", "Connection", "Disconnected", "InvalidHandle", "Ffi"}

\* C1: under every interleaving of the run() task with concurrent send(),
\* connect() and disconnect() calls, at most one native call (connect,
\* disconnect, poll_event, send) on the handle is in progress at any time.
C1_SingleNativeCall == Cardinality(InNative) <= 1

\* C1 witness: run() is inside wm_poll_event while one caller is about to
\* try_lock in disconnect() and the other has finished a send().
C1_Witness ==
    /\ pc["r1"] = "polling"
    /\ pc["c1"] = "disc_try"
    /\ result["c2"].op = "send"

\* C8: disconnect() can be started whenever its caller is free to call it,
\* whatever the lifecycle state, and at the moment a disconnect() returns
\* is_connected() is false and shutdown is signaled.
C8_DisconnectAlwaysClears ==
    /\ [](\A c \in Callers : pc[c] = "idle" => ENABLED DisconnectSignal(c))
    /\ [][\A c \in Callers :
            (pc[c] = "disc_store" /\ pc'[c] = "idle")
                => (~is_connected' /\ shutdown'.value)]_vars

\* C8 witness: two disconnect() calls have returned, the second of which found
\* the mutex taken and issued no native call; is_connected() is false.
C8_Witness ==
    /\ result["c1"] = Returned("disconnect", Ok)
    /\ result["c2"] = Returned("disconnect", Ok)
    /\ pc["c1"] = "idle" /\ pc["c2"] = "idle"
    /\ ~discNative["c2"]
    /\ ~is_connected

\* C9: disconnect() never waits for the adapter lock: each of its steps can be
\* taken whoever holds the lock, and the step at try_lock enters the native
\* disconnect exactly when the lock is free at that instant; otherwise it
\* goes on to clear the flag without a native call.
C9_DisconnectNeverWaits ==
    /\ [](\A c \in Callers :
            /\ pc[c] = "disc_try" => ENABLED DisconnectTry(c)
            /\ pc[c] = "disc_store" => ENABLED DisconnectStore(c))
    /\ [][\A c \in Callers :
            (pc[c] = "disc_try" /\ pc'[c] # "disc_try")
                => IF ffiLock = Free
                   THEN pc'[c] = "disc_native" /\ ffiLock' = c
                   ELSE /\ pc'[c] = "disc_store"
                        /\ ffiLock' = ffiLock
                        /\ c \notin InNative']_vars

\* C9 witness: a disconnect() has skipped the native call and is about to
\* clear the flag while run() is still inside wm_poll_event, holding the lock.
C9_Witness ==
    \E c \in Callers :
        /\ pc[c] = "disc_store"
        /\ ~discNative[c]
        /\ shutdown.value
        /\ pc["r1"] = "polling"
        /\ ffiLock = "r1"

\* C10: connect() sets connected=true only after the native connect returned
\* OK to it; when the native call fails, connect() returns the typed error of
\* that code and leaves the connected flag as it was.
C10_ConnectOnlyOnOk ==
    [][/\ \A c \in Callers :
            /\ (pc[c] = "connect_native" /\ pc'[c] = "connect_store")
                   => lastCode'[c] = WM_OK
            /\ (pc[c] = "connect_native" /\ pc'[c] = "idle")
                   => /\ lastCode'[c] # WM_OK
                      /\ result'[c] = Returned("connect", check_result(lastCode'[c]))
                      /\ result'[c].ret.tag \in ErrorTags
                      /\ connected' = connected
       /\ (connected' /\ ~connected)
              => \E c \in Callers :
                    /\ pc[c] = "connect_store"
                    /\ lastCode[c] = WM_OK
                    /\ result'[c] = Returned("connect", Ok)]_vars

\* C10 witness: a connect() has returned ConnectionError on a coordinator
\* that was never connected, and is_connected() is false.
C10_Witness ==
    /\ pc["c1"] = "idle"
    /\ result["c1"] = Returned("connect", Err("Connection"))
    /\ result["c2"] = NoResult
    /\ ~is_connected

\* ---- the event pump

IsPrefix(a, b) == Len(a) <= Len(b) /\ a = SubSeq(b, 1, Len(a))

RECURSIVE DecodeAll(_, _)
\* The events that the envelopes `envs`, numbered from k, decode to, in order
DecodeAll(envs, k) ==
    IF envs = <<>>
    THEN <<>>
    ELSE (IF Decode(Head(envs)).ok
          THEN <<[Decode(Head(envs)).event EXCEPT !.id = k]>>
          ELSE <<>>) \o DecodeAll(Tail(envs), k + 1)

Front(q) == SubSeq(q, 1, Len(q) - 1)

\* C2: with one run() task, every successfully decoded event is first passed
\* to the Callback Registry and then published to the Event Bus, one event at a
\* time, and both sequences are the decodable envelopes in the order the
\* native layer produced them.
C2_DispatchThenPublishInOrder ==
    LET r == "r1"
        all == DecodeAll(nativeOut, 1) IN
    CASE pc[r] = "decode" ->
            /\ dispatched = DecodeAll(Front(nativeOut), 1)
            /\ emitted = dispatched
      [] pc[r] = "dispatch" ->
            /\ all = Append(dispatched, event[r])
            /\ emitted = dispatched
      [] pc[r] = "emit" ->
            /\ dispatched = all
            /\ dispatched = Append(emitted, event[r])
      [] OTHER ->
            /\ dispatched = all
            /\ emitted = all

\* C2 witness: three envelopes were polled, the second of them undecodable;
\* the two events of different kinds around it have both been published.
C2_Witness ==
    /\ Len(nativeOut) = 3
    /\ ~Decode(nativeOut[2]).ok
    /\ Len(emitted) = 2
    /\ emitted[1].variant = "Message"
    /\ emitted[2].variant = "Connected"
    /\ pc["r1"] = "check"

\* ---- the bus and its subscribers

Ids(q) == [i \in 1..Len(q) |-> q[i].id]

Increasing(q) == \A i \in 1..(Len(q) - 1) : q[i] < q[i + 1]

\* The subscriber holds its EventStream
Subscribed(s) == sub[s].state = "live"

\* The subscriber has read everything that was sent
CaughtUp(s) == sub[s].next = tail.pos

\* The subscriber is more than the ring capacity behind the tail
Behind(s) ==
    /\ sub[s].state = "live"
    /\ tail.pos - sub[s].next > EVENT_CHANNEL_CAPACITY

\* C3 as stated: a subscriber that subscribed before any emission has
\* observed the emitted events, each once and in emission order: what it got
\* is a prefix of what was emitted, and all of it once it has caught up.
C3_Original ==
    \A s \in Subs :
        (Subscribed(s) /\ subAt[s] = 0)
            => /\ IsPrefix(got[s], emitted)
               /\ CaughtUp(s) => got[s] = emitted

\* C3 amended: a subscriber observes no event twice and none out of emission
\* order; the one that subscribed before any emission and never fell more than
\* the ring capacity behind has observed every event, each exactly once, in
\* emission order.
C3_EveryEventOnceUnlessLagged ==
    \A s \in Subs :
        /\ Increasing(Ids(got[s]))
        /\ (Subscribed(s) /\ subAt[s] = 0 /\ skipped[s] = 0)
               => /\ IsPrefix(got[s], emitted)
                  /\ CaughtUp(s) => got[s] = emitted

\* C3 witness: a subscriber from before the first emission has kept up and
\* holds all the events, more of them than the ring retains.
C3_Witness ==
    \E s \in Subs :
        /\ subAt[s] = 0
        /\ skipped[s] = 0
        /\ Len(emitted) > EVENT_CHANNEL_CAPACITY
        /\ got[s] = emitted

\* C4: a subscription created after N events had been emitted never yields
\* any of those N events, only events emitted after it was created.
C4_NothingFromBeforeSubscription ==
    \A s \in Subs : \A i \in 1..Len(got[s]) : got[s][i].id > subAt[s]

\* C4 witness: a subscriber that came after two emissions, both still retained
\* in the ring, has received a later event.
C4_Witness ==
    \E s \in Subs :
        /\ subAt[s] = 2
        /\ tail.pos > 2
        /\ Len(got[s]) > 0

\* C5: a poll of a subscriber that is more than the ring capacity behind does
\* not end the subscription and moves its cursor to the oldest retained
\* event; a poll of a subscriber that is behind by less yields the event at
\* its cursor and moves on by one, so that what it yields after the lag is
\* the retained and the later events, in emission order.
C5_LagAdvancesToOldestRetained ==
    /\ [](\A s \in Subs : Increasing(Ids(got[s])))
    /\ [][\A s \in Subs :
            /\ (Behind(s) /\ StreamPoll(s))
                  => /\ sub'[s].state = "live"
                     /\ pollLast'[s] # "End"
                     /\ sub'[s].next = tail.pos - EVENT_CHANNEL_CAPACITY
                     /\ skipped'[s] = skipped[s] + (sub'[s].next - sub[s].next)
            /\ (~Behind(s) /\ ~CaughtUp(s) /\ StreamPoll(s))
                  => /\ pollLast'[s] = "Ready"
                     /\ sub'[s].next = sub[s].next + 1
                     /\ Len(got'[s]) = Len(got[s]) + 1
                     /\ got'[s][Len(got'[s])].id
                            = subAt[s] + Len(got[s]) + skipped'[s] + 1]_vars

\* C5 witness: a subscriber lagged, lost one event, and has since received
\* the two events the ring retained and the one emitted after its recovery.
C5_Witness ==
    \E s \in Subs :
        /\ subAt[s] = 0
        /\ skipped[s] = 1
        /\ Ids(got[s]) = <<2, 3, 4>>
        /\ rxLast[s] = "Ok"

C7_Original ==
    [][\A s \in Subs :
          (tail.closed /\ StreamPoll(s)) => pollLast'[s] = "End"]_vars

\* C7 amended: once the bus is closed, a receive of a subscriber reports
\* end-of-stream exactly when the subscriber has read everything that was
\* sent; a subscriber with unread events first receives the retained ones (or
\* recovers from its lag), and nothing is sent after the close.
C7_ClosedEndsAfterDrain ==
    [][/\ \A s \in Subs :
            (tail.closed /\ StreamPoll(s))
                => /\ pollLast'[s] = "End" <=> CaughtUp(s)
                   /\ (~CaughtUp(s) /\ ~Behind(s)) => pollLast'[s] = "Ready"
       /\ tail.closed => (tail'.closed /\ tail'.pos = tail.pos)]_vars

\* C7 witness: the bus is closed and a subscriber that had an unread event at
\* the close has received it and then the end of the stream.
C7_Witness ==
    \E s \in Subs :
        /\ tail.closed
        /\ numTx = 0
        /\ pollLast[s] = "End"
        /\ Len(got[s]) > 0
        /\ got[s] = emitted

\* ---- shutdown

InFlight(r) == pc[r] \notin {"idle", "done"}

\* C13: under fair scheduling, with every native call returning, a run()
\* that is in flight once shutdown has been signaled terminates, wherever in
\* its loop it stands.
C13_RunTerminatesAfterShutdown ==
    \A r \in Runners : (shutdown.value /\ InFlight(r)) ~> ~InFlight(r)

\* C13 witness: run() has returned Ok after a poll that handed it an event:
\* its first check had found no shutdown, so the signal came while it was in
\* flight.
C13_Witness ==
    /\ pc["r1"] = "done"
    /\ result["r1"] = Returned("run", Ok)
    /\ lastCode["r1"] = 1
    /\ shutdown.value

\* C14: the shutdown flag, once set, stays set; a check of the loop that finds
\* it set ends run() with Ok; and no iteration goes on to the native poll
\* while it is set at its check.
C14_ShutdownIsLevelTriggered ==
    /\ [][shutdown.value => shutdown'.value]_vars
    /\ [][\A r \in Runners :
            (pc[r] = "check" /\ shutdown.value /\ pc'[r] # "check")
                => (pc'[r] = "done" /\ result'[r] = Returned("run", Ok))]_vars
    /\ [][\A r \in Runners :
            (pc[r] # "lock" /\ pc'[r] = "lock") => ~shutdown.value]_vars

\* C14 witness: two disconnect() calls have returned and a run() has returned
\* Ok without any envelope having been polled.
C14_Witness ==
    /\ result["c1"] = Returned("disconnect", Ok)
    /\ result["c2"] = Returned("disconnect", Ok)
    /\ pc["r1"] = "done"
    /\ result["r1"] = Returned("run", Ok)
    /\ nativeOut = <<>>
    /\ shutdown.value

\* C17: one poll_event call that fails with DisconnectedError does not
\* terminate run(); the loop goes on to its next iteration.
C17_Original ==
    [][\A r \in Runners :
          (pc[r] = "polling" /\ lastCode'[r] = WM_ERR_DISCONNECTED)
              => pc'[r] # "done"]_vars

\* ---- the life of a coordinator

DisconnectPcs == {"disc_try", "disc_native", "disc_store"}

\* The pump has finished with an event that reports the end of the session.
ObservesEnd(r) ==
    /\ pc[r] = "emit"
    /\ pc'[r] = "check"
    /\ event[r].variant \in {"Disconnected", "LoggedOut"}

\* C11: when the polling loop of run() has observed a Disconnected or
\* LoggedOut event, is_connected() is false.
C11_Original ==
    [][\A r \in Runners : ObservesEnd(r) => ~is_connected']_vars

\* A disconnect() has returned on this coordinator: shutdown was signaled while
\* the coordinator is alive (so not by its Drop) and no disconnect() is still
\* on its way.
DisconnectCompleted ==
    /\ shutdown.value
    /\ \E t \in Tasks : holds[t]
    /\ \A c \in Callers : pc[c] \notin DisconnectPcs

LastRelease ==
    /\ \E t \in Tasks : holds[t]
    /\ \A t \in Tasks : ~holds'[t]

Dropped == \A t \in Tasks : ~holds[t]

\* C15: the step that releases the last handle signals shutdown, whether or
\* not shutdown had been signaled before, and destroys the native handle; no
\* run() is in flight at that step or after it, since a run() in flight owns
\* a handle itself.
C15_DropSignalsShutdown ==
    /\ [](Dropped => /\ shutdown.value /\ shutdown.changed
                      /\ destroys = 1
                      /\ \A r \in Runners : pc[r] \in {"idle", "done"})
    /\ [][LastRelease => /\ shutdown'.value
                          /\ destroys' = destroys + 1
                          /\ \A r \in Runners : pc[r] \in {"idle", "done"}]_vars
    /\ [][\A r \in Runners :
            pc[r] \notin {"idle", "done"} => (holds[r] /\ holds'[r])]_vars

\* C15 witness: the coordinator was dropped while is_connected() was true,
\* that is with no disconnect() since its connect(); its run() had ended on a
\* poll error; shutdown is signaled and the native handle destroyed.
C15_Witness ==
    /\ Dropped
    /\ is_connected
    /\ result["r1"] = Returned("run", Err("Disconnected"))
    /\ shutdown.value
    /\ destroys = 1

\* C16: wm_client_destroy is called at most once, exactly when the last
\* handle goes, whatever the earlier operations returned; no native call is
\* in progress at that step, and no operation runs on the handle after it.
C16_DestroyOnceAndLast ==
    /\ [](/\ destroys <= 1
          /\ destroys = 1 <=> Dropped
          /\ destroys = 1 => (InNative = {} /\ ffiLock = Free))
    /\ [][destroys' # destroys =>
            /\ destroys = 0 /\ destroys' = 1
            /\ InNative = {} /\ InNative' = {}]_vars
    /\ [][destroys = 1 => (pc' = pc /\ destroys' = 1)]_vars

\* C16 witness: the native handle was destroyed once, after a connect() that
\* failed and a run() that ended on an invalid-handle error.
C16_Witness ==
    /\ destroys = 1
    /\ result["c1"] = Returned("connect", Err("Connection"))
    /\ result["r1"] = Returned("run", Err("InvalidHandle"))
    /\ InNative = {}

\* ---- the decoder

\* The run() task is through with envelope i: it has polled a later one, or
\* it stands outside the handling of the one it polled last.
Handled(i) ==
    \/ i < Len(nativeOut)
    \/ i = Len(nativeOut) /\ pc["r1"] \notin {"decode", "dispatch", "emit"}

DispatchedIds == {dispatched[k].id : k \in DOMAIN dispatched}
EmittedIds == {emitted[k].id : k \in DOMAIN emitted}

\* C18: an envelope that does not decode (bytes that are no RawEvent, or a
\* payload of the wrong shape for a known type) is dropped on its own: the
\* step that finds it dispatches nothing, publishes nothing and takes run()
\* back to the top of its loop without returning; no event of that envelope
\* is ever dispatched or published, and every decodable envelope run() is
\* through with, before it or after it, was dispatched and published.
C18_BadEnvelopeIsSkipped ==
    /\ [][\A r \in Runners :
            (pc[r] = "decode" /\ ~Decode(bytes[r].env).ok /\ pc'[r] # "decode")
                => /\ dispatched' = dispatched
                   /\ emitted' = emitted
                   /\ pc'[r] = "check"
                   /\ result'[r] = NoResult]_vars
    /\ [](\A i \in DOMAIN nativeOut :
            IF Decode(nativeOut[i]).ok
            THEN Handled(i) => (i \in DispatchedIds /\ i \in EmittedIds)
            ELSE i \notin DispatchedIds /\ i \notin EmittedIds)

\* C18 witness: a message envelope with a payload of the wrong shape, then
\* bytes that are not JSON, then a good message envelope were polled; only
\* the third was dispatched and published, and run() is still looping.
C18_Witness ==
    /\ nativeOut = <<Envelope(TRUE, "message", "bad"),
                     Envelope(FALSE, "", NoData),
                     Envelope(TRUE, "message", "good")>>
    /\ DispatchedIds = {3}
    /\ EmittedIds = {3}
    /\ emitted[1].variant = "Message"
    /\ pc["r1"] = "check"

\* The envelope the event in the hands of run() was decoded from
Source(ev) == nativeOut[ev.id]

\* C19: a known type whose variant carries a payload decodes, with its data
\* missing, to Unknown tagged with that type; only connected and disconnected
\* decode to a variant of their own without data.
C19_Original ==
    \A r \in Runners :
        (pc[r] = "dispatch" /\ Source(event[r]).data = NoData)
            => /\ Source(event[r]).type \in PayloadTypes
                    => /\ event[r].variant = "Unknown"
                       /\ event[r].event_type = Source(event[r]).type
               /\ event[r].variant # "Unknown"
                    => Source(event[r]).type \in {"connected", "disconnected"}

\* What an envelope of a known type decodes to when its data is missing
MissingDataVariant(type) ==
    CASE type \in {"connected", "pair_success"} -> "Connected"
      [] type \in {"disconnected", "logged_out"} -> "Disconnected"
      [] type = "history_sync" -> "HistorySync"
      [] OTHER -> "Unknown"

\* C19 as the decoder has it: with its data missing an envelope of a known
\* type always decodes (never a parse error); qr, message, receipt, presence,
\* offline_sync_preview and offline_sync_completed give Unknown tagged with
\* the type, pair_success gives Connected, logged_out gives Disconnected, and
\* connected, disconnected and history_sync give their own variant.
C19_MissingDataTable ==
    /\ \A r \in Runners :
          (pc[r] = "dispatch" /\ Source(event[r]).data = NoData
              /\ Source(event[r]).type \in KnownTypes)
            => /\ event[r].variant = MissingDataVariant(Source(event[r]).type)
               /\ event[r].data = NoData
               /\ event[r].event_type =
                      IF event[r].variant = "Unknown"
                      THEN Source(event[r]).type ELSE ""
    /\ \A i \in DOMAIN nativeOut :
          (nativeOut[i].json /\ nativeOut[i].data = NoData)
              => Decode(nativeOut[i]).ok

\* C19 witness: a pair_success envelope without data has been decoded, to
\* Connected.
C19_Witness ==
    /\ pc["r1"] = "dispatch"
    /\ Source(event["r1"]) = Envelope(TRUE, "pair_success", NoData)
    /\ event["r1"].variant = "Connected"

\* C20: an envelope whose type is not in the variant table decodes to Unknown
\* carrying that type string and the envelope's data as it came (absent stays
\* absent); once run() is through with it, it has been published to the bus.
C20_UnknownTypeIsKeptAndPublished ==
    /\ \A r \in Runners :
          (pc[r] \in {"dispatch", "emit"}
              /\ Source(event[r]).type \notin KnownTypes)
            => event[r] = [id |-> event[r].id, variant |-> "Unknown",
                           event_type |-> Source(event[r]).type,
                           data |-> Source(event[r]).data]
    /\ \A i \in DOMAIN nativeOut :
          (nativeOut[i].json /\ nativeOut[i].type \notin KnownTypes /\ Handled(i))
            => \E k \in DOMAIN emitted :
                  emitted[k] = [id |-> i, variant |-> "Unknown",
                                event_type |-> nativeOut[i].type,
                                data |-> nativeOut[i].data]

\* C20 witness: an envelope of type "call" with a payload was polled and
\* published as Unknown("call") with that payload, and run() went on to
\* publish the message that followed.
C20_Witness ==
    /\ Len(emitted) = 2
    /\ emitted[1] = [id |-> 1, variant |-> "Unknown", event_type |-> "call",
                     data |-> "good"]
    /\ emitted[2].variant = "Message"

\* ---- handlers

\* The handlers invoked for event id, in the order their tasks were spawned
Invoked(id) ==
    LET RECURSIVE Of(_)
        Of(q) == IF q = <<>> THEN <<>>
                 ELSE IF q[1].ev = id THEN <<q[1].h>> \o Of(Tail(q))
                 ELSE Of(Tail(q))
    IN Of(spawned)

\* The list the callbacks of a variant are expected on, "none" for a variant
\* that is to reach no callback
ListFor(variant) ==
    CASE variant \in {"Connected", "PairSuccess"} -> "connected"
      [] variant \in {"Disconnected", "LoggedOut"} -> "disconnected"
      [] variant = "Qr" -> "qr"
      [] variant = "Message" -> "message"
      [] variant \in {"HistorySync", "OfflineSyncPreview",
                      "OfflineSyncCompleted", "Unknown"} -> "none"

RoutedVariants ==
    {"Connected", "PairSuccess", "Disconnected", "LoggedOut", "Qr", "Message",
     "HistorySync", "OfflineSyncPreview", "OfflineSyncCompleted", "Unknown"}

\* C21: once dispatch has been called for an event of one of these variants,
\* the handlers invoked for it are exactly those of the list of its variant
\* (connected for Connected and PairSuccess, disconnected for Disconnected and
\* LoggedOut, qr for Qr, message for Message), in registration order, and
\* none at all for HistorySync, OfflineSyncPreview, OfflineSyncCompleted and
\* Unknown; and every event run() is through with, of those four variants
\* too, was published to the bus.
C21_DispatchRoutesByVariant ==
    /\ \A k \in DOMAIN dispatched :
          dispatched[k].variant \in RoutedVariants
              => Invoked(dispatched[k].id) =
                    (IF ListFor(dispatched[k].variant) = "none"
                     THEN <<>>
                     ELSE handlers[ListFor(dispatched[k].variant)])
    /\ \A k \in DOMAIN dispatched :
          Handled(dispatched[k].id) => dispatched[k].id \in EmittedIds

\* C21 witness: a pair_success envelope went to both callbacks of the
\* connected list, in registration order, and was published.
C21_Witness ==
    /\ Len(dispatched) = 1 /\ dispatched[1].variant = "PairSuccess"
    /\ handlers["connected"] = <<"h2", "h1">>
    /\ Invoked(1) = <<"h2", "h1">>
    /\ EmittedIds = {1}

\* C21 second witness: an event of an unknown type reached no callback of a
\* registry that has callbacks, and was published.
C21_WitnessUnknown ==
    /\ Len(dispatched) = 1 /\ dispatched[1].variant = "Unknown"
    /\ handlers["message"] # <<>>
    /\ spawned = <<>>
    /\ EmittedIds = {1}

\* C22, for the only kind of registration there is: a handler runs inline
\* on the polling task, so that when an event has been published to the bus
\* every handler invoked for it has finished.
C22_Original ==
    \A k \in DOMAIN spawned :
        spawned[k].ev \in EmittedIds => spawned[k].state # "pending"

\* C23: the step in which a handler invocation panics changes nothing of the
\* coordinator and of the bus (run() stays where it is in its loop and
\* returns nothing) and nothing of any other invocation; and whenever an
\* invocation has panicked, every handler registered for its event was
\* invoked all the same, the event was published once run() is through with
\* it, and an error run() has returned is the translation of the code its
\* last poll got from the native layer.
C23_PanicIsIsolated ==
    /\ [][\A k \in DOMAIN spawned :
            (spawned[k].state # "panicked" /\ spawned'[k].state = "panicked")
                => /\ coordVars' = coordVars
                   /\ busVars' = busVars
                   /\ handlers' = handlers
                   /\ spawned' = [spawned EXCEPT ![k].state = "panicked"]]_vars
    /\ [](\A k \in DOMAIN spawned :
            spawned[k].state = "panicked"
                => /\ Invoked(spawned[k].ev) = handlers[spawned[k].list]
                   /\ Handled(spawned[k].ev) => spawned[k].ev \in EmittedIds
                   /\ \A r \in Runners :
                         result[r].ret # Ok
                             => /\ lastCode[r] < 0
                                /\ result[r].ret = check_result(lastCode[r]))

\* C23 witness: the first handler of the first message panicked; the second
\* handler ran to its end, the message was published, and run() has since
\* polled, dispatched and published a second message and is still looping.
C23_Witness ==
    /\ handlers["message"] = <<"h1", "h2">>
    /\ Len(spawned) = 4
    /\ spawned[1].ev = 1 /\ spawned[1].h = "h1" /\ spawned[1].state = "panicked"
    /\ spawned[2].ev = 1 /\ spawned[2].h = "h2" /\ spawned[2].state = "returned"
    /\ EmittedIds = {1, 2}
    /\ InFlight("r1")
    /\ result["r1"] = NoResult

\* C24: under fair scheduling of run() alone, with nothing assumed of the
\* handler tasks: a run() that has dispatched an event publishes it and comes
\* to its next poll, or to its end if shutdown was signaled; a run() in
\* flight once shutdown has been signaled terminates; and every event run()
\* is through with was published, whether its handlers have finished or not.
C24_RunNeverWaitsForHandlers ==
    /\ \A r \in Runners :
          (pc[r] \in {"dispatch", "emit"}) ~> (pc[r] = "polling" \/ ~InFlight(r))
    /\ \A r \in Runners : (shutdown.value /\ InFlight(r)) ~> ~InFlight(r)
    /\ [](\A k \in DOMAIN dispatched :
            Handled(dispatched[k].id) => dispatched[k].id \in EmittedIds)

\* C24 witness: run() has returned Ok after a shutdown, having published two
\* messages, and no handler task of either has run yet.
C24_Witness ==
    /\ pc["r1"] = "done" /\ result["r1"] = Returned("run", Ok)
    /\ shutdown.value
    /\ EmittedIds = {1, 2}
    /\ Len(spawned) = 2
    /\ \A k \in DOMAIN spawned : spawned[k].state = "pending"

\* ---- manager

Live == {id \in ClientIds : coord[id].live}

\* C25: a spawn of an identifier that was spawned before, and not shut down
\* since, returns an error, and the identifier has its one entry.
C25_Original ==
    (mgrLast.op = "spawn" /\ mgrLast.id \in mgrLast.live)
        => (mgrLast.ret = "Err(Init)" /\ mgrLast.id \in clients)

\* C26: from a successful spawn of an identifier until a shutdown that names
\* it, get returns its client, list contains it, and count counts it.
C26_Original ==
    /\ \A id \in Live : get(id) = "Some" /\ id \in list
    /\ count = Cardinality(Live)

\* C27: shutdown(id) of a live identifier whose client was built leaves that
\* coordinator disconnected, with shutdown signaled, and without an entry;
\* shutdown_all() does so for every such identifier and leaves no entry.
C27_Original ==
    /\ (mgrLast.op = "shutdown" /\ mgrLast.id \in mgrLast.built)
          => /\ coord[mgrLast.id].shutdown
             /\ ~coord[mgrLast.id].connected
             /\ mgrLast.id \notin clients
    /\ mgrLast.op = "shutdown_all"
          => /\ clients = {}
             /\ \A id \in mgrLast.built :
                   coord[id].shutdown /\ ~coord[id].connected

\* ---- send

\* C28: a send whose recipient or text holds a NUL byte returns the Send
\* error straight from the validation, with no native call made; a send
\* without a NUL byte goes into the one native call, and what it returns is
\* the translation of the code that call returned.
C28_SendValidatesBeforeNativeCall ==
    [][\A c \in Callers :
          /\ (pc[c] = "send_ffi" /\ pc'[c] # "send_ffi")
                => IF arg[c].jid \/ arg[c].text
                   THEN /\ pc'[c] = "idle"
                        /\ result'[c] = Returned("send", Err("Send"))
                        /\ lastCode'[c] = 0
                        /\ c \notin InNative'
                   ELSE /\ pc'[c] = "send_native"
                        /\ result'[c] = NoResult
          /\ (pc[c] = "send_native" /\ pc'[c] # "send_native")
                => /\ pc'[c] = "idle"
                   /\ lastCode'[c] \in CallCodes
                   /\ result'[c] = Returned("send", check_result(lastCode'[c]))
          /\ (pc[c] # "send_native" /\ pc'[c] = "send_native")
                => (pc[c] = "send_ffi" /\ ~arg[c].jid /\ ~arg[c].text)]_vars

\* C28 witness: one send was refused for a NUL byte and made no native call;
\* the other made its native call and returned the translation of the error
\* code it got.
C28_Witness ==
    /\ result["c1"] = Returned("send", Err("Send")) /\ lastCode["c1"] = 0
    /\ result["c2"] = Returned("send", Err("Connection"))
    /\ lastCode["c2"] = WM_ERR_CONNECT

\* ---- the adapter's return values

\* C29: check_result translates 0 to success, -1 to Init, -2 to Connection,
\* -3 to Disconnected, -4 to InvalidHandle and every other value, negative or
\* positive, to the Ffi error carrying that very code; nothing but 0 is
\* success.
C29_CheckResultIsTotal ==
    ffiLast.op = "check_result"
        => /\ (ffiLast.code = 0) => ffiLast.ret = Ok
           /\ (ffiLast.code = -1) => ffiLast.ret = Err("Init")
           /\ (ffiLast.code = -2) => ffiLast.ret = Err("Connection")
           /\ (ffiLast.code = -3) => ffiLast.ret = Err("Disconnected")
           /\ (ffiLast.code = -4) => ffiLast.ret = Err("InvalidHandle")
           /\ (ffiLast.code \notin {0, -1, -2, -3, -4})
                 => ffiLast.ret = [tag |-> "Ffi", code |-> ffiLast.code]
           /\ (ffiLast.code # 0) => ffiLast.ret.tag # "Ok"

\* C29 witness: a positive code came out as the Ffi error with that code.
C29_Witness ==
    /\ ffiLast.op = "check_result" /\ ffiLast.code = 2
    /\ ffiLast.ret = [tag |-> "Ffi", code |-> 2]

\* C30: poll_event returns None, and no error, when the native call returned
\* 0; Some of exactly the n bytes the native call wrote when it returned
\* n > 0; and an error, never None or Some, when it returned n < 0.
C30_PollEventClassifies ==
    ffiLast.op = "poll_event"
        => /\ (ffiLast.code = 0) => (ffiLast.kind = "None" /\ ffiLast.ret = Ok)
           /\ (ffiLast.code > 0)
                 => /\ ffiLast.kind = "Some" /\ ffiLast.ret = Ok
                    /\ Len(ffiLast.data) = ffiLast.code
                    /\ ffiLast.data = ffiLast.wrote
           /\ (ffiLast.code < 0)
                 => /\ ffiLast.kind = "Err"
                    /\ ffiLast.ret.tag \in ErrorTags
                    /\ ffiLast.data = <<>>

\* C30 witness: an event of one byte was polled into a buffer that still held
\* the bytes of a longer one, and came out as that one byte.
C30_Witness ==
    /\ ffiLast.op = "poll_event" /\ ffiLast.code = 1
    /\ ffiLast.kind = "Some" /\ ffiLast.data = <<2>>
    /\ event_buffer[2] = 1

\* ---- the adapter mutex

\* The pcs at which a task is inside a call on the adapter: marshalling the
\* arguments of the native call, or in the native call itself
AdapterPcs == NativePcs \cup {"send_ffi"}

\* C31: a task that holds the adapter mutex is inside one call on the
\* adapter, on its way into or in its native call; at every other place
\* (run() checking for shutdown, decoding, dispatching, publishing, in its
\* idle wait or done; connect(), send() and disconnect() before and after
\* their call on the adapter) the task does not hold the mutex, and the
\* mutex is free when no task is inside a call on the adapter.
C31_LockOnlyAroundNativeCall ==
    /\ \A t \in Tasks : (ffiLock = t) <=> (pc[t] \in AdapterPcs)
    /\ (\A t \in Tasks : pc[t] \notin AdapterPcs) => ffiLock = Free

\* C31 witness: run() is about to publish an event, without the mutex, while
\* a send is inside its native call with it.
C31_Witness ==
    /\ pc["r1"] = "emit"
    /\ pc["c1"] = "send_native"
    /\ ffiLock = "c1"

\* ---- the idle wait

\* C32: a poll that returned no event takes run() into its idle wait and
\* nowhere else; run() leaves the wait only for the top of its loop, or for
\* its end when shutdown was signaled; and it comes to a poll only from the
\* top of its loop.  So between two polls that found nothing lies the wait.
C32_IdleWaitBetweenEmptyPolls ==
    [][\A r \in Runners :
          /\ (pc[r] = "polling" /\ pc'[r] # "polling" /\ lastCode'[r] = 0)
                => pc'[r] = "wait"
          /\ (pc[r] = "wait" /\ pc'[r] # "wait")
                => \/ pc'[r] = "check"
                   \/ /\ pc'[r] = "done" /\ shutdown.changed
                      /\ result'[r] = Returned("run", Ok)
          /\ (pc[r] # "lock" /\ pc'[r] = "lock") => pc[r] = "check"
          /\ (pc[r] # "polling" /\ pc'[r] = "polling") => pc[r] = "lock"
          /\ (pc[r] # "check" /\ pc'[r] = "check")
                => pc[r] \in {"idle", "done", "wait", "decode", "emit"}]_vars

\* C32 witness: run() sits in its idle wait after a poll that found nothing,
\* and nobody has signaled shutdown.
C32_Witness ==
    /\ pc["r1"] = "wait"
    /\ lastCode["r1"] = 0
    /\ ~shutdown.value
    /\ ffiLock = Free

\* ---- the registry

\* C33: a step changes a handler list only by appending to it; and the
\* dispatch of an event adds, behind the tasks already spawned, one task for
\* each handler then on the list of the event's kind, in the order of the
\* list, each of them for that event and from that list, and nothing else.
C33_ListsGrowAndDispatchSchedulesEachOnce ==
    /\ [][\A l \in HandlerLists :
            /\ IsPrefix(handlers[l], handlers'[l])
            /\ Len(handlers'[l]) <= Len(handlers[l]) + 1]_vars
    /\ [][\A r \in Runners :
            (pc[r] = "dispatch" /\ pc'[r] # "dispatch")
                => LET lst == ListFor(event[r].variant)
                       expected == IF lst = "none" THEN <<>> ELSE handlers[lst]
                       n == Len(spawned) IN
                   /\ Len(spawned') = n + Len(expected)
                   /\ SubSeq(spawned', 1, n) = spawned
                   /\ \A k \in DOMAIN expected :
                         /\ spawned'[n + k].h = expected[k]
                         /\ spawned'[n + k].list = lst
                         /\ spawned'[n + k].ev = event[r].id]_vars

\* C33 witness: two callbacks were registered for messages and none for the
\* connection; a message was dispatched to the two in registration order and
\* a connected event, dispatched after it, to nobody.
C33_Witness ==
    /\ handlers["message"] = <<"h2", "h1">>
    /\ handlers["connected"] = <<>>
    /\ Len(dispatched) = 2
    /\ dispatched[1].variant = "Message" /\ dispatched[2].variant = "Connected"
    /\ Len(spawned) = 2
    /\ spawned[1].h = "h2" /\ spawned[2].h = "h1"
    /\ spawned[1].ev = 1 /\ spawned[2].ev = 1

\* C34: once disconnect() has signaled shutdown, a run() in flight enters the
\* native poll at most once more and publishes at most one more event; it
\* then ends, whatever the native layer still holds.  A run() that has ended
\* with the flag set polls and publishes nothing.
C34_AtMostOnePollAndEmitAfterShutdown ==
    /\ [](\A r \in Runners : since[r].polls <= 1 /\ since[r].emits <= 1)
    /\ [][\A r \in Runners :
            (shutdown.value /\ pc[r] = "done" /\ pc'[r] = "done")
               => /\ Len(nativeOut') = Len(nativeOut)
                  /\ emitted' = emitted]_vars

\* a run() that polled once and published once after the signal, and ended,
\* with room left for more native events
C34_Witness ==
    /\ shutdown.value
    /\ pc["r1"] = "done"
    /\ since["r1"] = [polls |-> 1, emits |-> 1]
    /\ Len(nativeOut) < MaxEvents
    /\ Len(emitted) < MaxEmits

\* ---- a connect() under way when disconnect() is called

\* The state of a new coordinator on which caller c has entered connect():
\* it holds the adapter mutex and wm_client_connect is running (inner.rs:46)
Connecting(c) ==
    /\ ffiLock = c
    /\ connected = FALSE
    /\ shutdown = [value |-> FALSE, changed |-> FALSE]
    /\ pc = [t \in Tasks |-> IF t = c THEN "connect_native" ELSE "idle"]
    /\ arg = [t \in Callers |-> NoArg]
    /\ result = [t \in Tasks |-> NoResult]
    /\ lastCode = [t \in Tasks |-> 0]
    /\ discNative = [t \in Callers |-> FALSE]
    /\ bytes = [t \in AllRunners |-> NoBytes]
    /\ event = [t \in AllRunners |-> NoEvent]
    /\ nativeOut = <<>>
    /\ dispatched = <<>>
    /\ emitted = <<>>
    /\ tail = InitTail
    /\ buffer = InitBuffer
    /\ numTx = 1
    /\ sub = [s \in Subs |-> NoSub]
    /\ subAt = [s \in Subs |-> 0]
    /\ got = [s \in Subs |-> <<>>]
    /\ skipped = [s \in Subs |-> 0]
    /\ rxLast = [s \in Subs |-> "None"]
    /\ pollLast = [s \in Subs |-> "None"]
    /\ holds = [t \in Tasks |-> t # "r2"]
    /\ destroys = 0
    /\ since = [t \in AllRunners |-> NoneSince]
    /\ handlers = NoHandlers
    /\ spawned = <<>>
    /\ clients = {}
    /\ coord = [id \in ClientIds |-> NoCoord]
    /\ mgrLast = NoCall
    /\ event_buffer = NoBuffer
    /\ ffiLast = NoFfi
    /\ builder = NoBuilder

InitRace == Connecting("c1")

\* c1 finishes the one connect() it is in and calls nothing else; c2 calls
\* disconnect(); the pump runs beside them
NextRace ==
    \/ ConnectReturn("c1") \/ ConnectStore("c1")
    \/ DisconnectStep("c2")
    \/ \E r \in Runners : RunStep(r, LifecycleEnvelopes)

SpecRace == InitRace /\ [][NextRace]_vars

ConnectPcs == {"connect_native", "connect_store"}

NextFlag ==
    \/ \E r \in Runners : RunStep(r, MessageEnvelopes)
    \/ CallerStep("c1")
    \/ Events("s1")
    \/ HandlerStep

SpecFlag == InitOneHandler /\ [][NextFlag]_vars

\* C36: the connected flag starts false and changes only in two places: the
\* store of connect(), reached when wm_client_connect answered WM_OK, sets
\* it, and the store of disconnect() clears it.  run(), send(), events(),
\* the stream and the callbacks leave it as it is, so a set flag means that
\* a native connect returned OK before.
C36_OnlyConnectAndDisconnectWriteFlag ==
    /\ ~is_connected
    /\ [][connected' # connected =>
            \E c \in Callers :
               \/ /\ pc[c] = "connect_store"
                  /\ lastCode[c] = WM_OK
                  /\ result'[c] = Returned("connect", Ok)
                  /\ connected'
               \/ /\ pc[c] = "disc_store"
                  /\ result'[c] = Returned("disconnect", Ok)
                  /\ ~connected']_vars

\* the flag is set while the pump has published an event to a subscriber, a
\* callback has run and a send has returned
C36_Witness ==
    /\ is_connected
    /\ result["c1"].op = "send"
    /\ Len(emitted) > 0
    /\ \E i \in DOMAIN spawned : spawned[i].state # "pending"
    /\ sub["s1"] # NoSub

\* ---- two run() calls on one coordinator

\* client.rs:13: WhatsApp is Clone; the clone is a second handle on the same
\* coordinator, handed to the task r2
CloneHandle ==
    /\ holds["r1"]
    /\ ~holds["r2"]
    /\ holds' = [holds EXCEPT !["r2"] = TRUE]
    /\ UNCHANGED <<coordVars, busVars, subVars, destroys, since, handlerVars, sideVars>>

\* What the native layer hands out here: events of two kinds and bytes that
\* do not decode
TwoRunEnvelopes ==
    {Envelope(TRUE, "connected", NoData),
     Envelope(TRUE, "message", "good"),
     Envelope(FALSE, "", NoData)}

\* Both tasks call run(&self); nobody signals shutdown
NextTwoRuns ==
    \/ CloneHandle
    \/ \E r \in AllRunners :
          \/ RunStart(r) \/ RunCheck(r) \/ RunLock(r)
          \/ RunPollReturn(r, TwoRunEnvelopes)
          \/ RunDecode(r) \/ RunDispatch(r) \/ RunEmit(r) \/ RunWake(r)

SpecTwoRuns == Init /\ [][NextTwoRuns]_vars

\* The run() task r has envelope i in its hands
InHandsOf(r, i) ==
    \/ pc[r] = "decode" /\ bytes[r].id = i
    \/ pc[r] \in {"dispatch", "emit"} /\ event[r].id = i

NoDuplicateIds(seq) ==
    \A j, k \in DOMAIN seq : seq[j].id = seq[k].id => j = k

\* C37: with two run() calls under way on one coordinator, every envelope
\* the native poll returned is in the hands of exactly one of them until it
\* has been dispatched once and published once: no event is dispatched or
\* published twice, none is lost between the two tasks.
C37_TwoRunsHandleEachEventOnce ==
    /\ NoDuplicateIds(dispatched)
    /\ NoDuplicateIds(emitted)
    /\ EmittedIds \subseteq DispatchedIds
    /\ DispatchedIds \subseteq DOMAIN nativeOut
    /\ \A i \in DOMAIN nativeOut :
          LET owners == {r \in AllRunners : InHandsOf(r, i)} IN
            /\ Cardinality(owners) <= 1
            /\ i \in EmittedIds => owners = {}
            /\ i \in DispatchedIds \ EmittedIds
                  => \E r \in owners : pc[r] = "emit"
            /\ (Decode(nativeOut[i]).ok /\ owners = {})
                  => i \in DispatchedIds /\ i \in EmittedIds
            /\ ~Decode(nativeOut[i]).ok => i \notin DispatchedIds

\* both tasks polled: r2 got the first event, r1 the second, and both were
\* dispatched and published
C37_Witness ==
    /\ Len(nativeOut) = MaxEvents
    /\ \A i \in DOMAIN nativeOut : Decode(nativeOut[i]).ok
    /\ DispatchedIds = DOMAIN nativeOut
    /\ EmittedIds = DOMAIN nativeOut
    /\ lastCode["r1"] = 1 /\ lastCode["r2"] = 1
    /\ pc["r1"] = "check" /\ pc["r2"] = "check"

\* C38: with two run() calls under way on one coordinator, events are
\* published to the bus in the order in which the native layer produced
\* them.
C38_Original ==
    \A j, k \in DOMAIN emitted : j < k => emitted[j].id < emitted[k].id

\* ---- WhatsAppBuilder (builder.rs)

\* builder.rs:21-27: WhatsApp::connect(path) returns a builder with no
\* coordinator
NewBuilder == [NoBuilder EXCEPT !.stage = "builder"]

\* builder.rs:35-41: ensure_inner.  With `inner` set it is Ok; else
\* FfiClient::new is called, and created (ok) it becomes the adapter of a new
\* coordinator, kept in `inner`; failed, `?` returns the error and `inner`
\* stays None
ensure_inner(b, ok) ==
    IF b.inner
    THEN [ret |-> Ok, b |-> b]
    ELSE IF ok
         THEN [ret |-> Ok, b |-> [b EXCEPT !.inner = TRUE, !.created = @ + 1]]
         ELSE [ret |-> Err("Init"), b |-> b]

\* builder.rs:44-89: on_qr, on_message, on_connected, on_disconnected:
\* `if let Ok(inner) = self.ensure_inner() { inner.handlers.register_x(f) }`,
\* then the builder is handed back whatever happened
BuilderOn(lst, h) ==
    /\ builder.stage = "builder"
    /\ \A k \in DOMAIN builder.asked : builder.asked[k].h # h
    /\ \E ok \in BOOLEAN :
         LET e == ensure_inner(builder, ok) IN
           /\ handlers' = IF e.ret = Ok THEN register(handlers, lst, h) ELSE handlers
           /\ builder' = [e.b EXCEPT !.asked = Append(@, [lst |-> lst, h |-> h])]
    /\ UNCHANGED <<coordVars, busVars, subVars, lifeVars, spawned, mgrVars, adapterVars>>

\* builder.rs:92-96: build(): ensure_inner()?, then connect().await? on the
\* coordinator (inner.rs:44-50), then the handle
BuilderBuild ==
    /\ builder.stage = "builder"
    /\ \E ok \in BOOLEAN, code \in CallCodes :
         LET e == ensure_inner(builder, ok) IN
           IF e.ret # Ok
           THEN /\ builder' = [e.b EXCEPT !.stage = "failed"]
                /\ UNCHANGED connected
           ELSE IF check_result(code) = Ok
                THEN /\ builder' = [e.b EXCEPT !.stage = "built"]
                     /\ connected' = TRUE
                ELSE /\ builder' = [e.b EXCEPT !.stage = "failed"]
                     /\ UNCHANGED connected
    /\ UNCHANGED <<ffiLock, shutdown, pc, arg, result, lastCode, discNative,
                   bytes, event, nativeOut, dispatched, busVars, subVars, lifeVars,
                   handlerVars, mgrVars, adapterVars>>

\* The four lists a builder registers on
BuilderLists == {"qr", "message", "connected", "disconnected"}

\* The fields of the coordinator have the values InnerClient::new gives them
\* (inner.rs:30-41) when the builder creates it
InitBuilder == ConstructedBy(NoHandlers, NewBuilder)

NextBuilder ==
    \/ \E lst \in BuilderLists, h \in HandlerIds : BuilderOn(lst, h)
    \/ BuilderBuild

SpecBuilder == InitBuilder /\ [][NextBuilder]_vars

\* The callbacks a registry holds on a list
OnList(reg, lst) == {reg[lst][k] : k \in DOMAIN reg[lst]}

\* C39: every handler registered on a builder before build() succeeds is in
\* the registry of the client built, and the builder creates at most one
\* native handle.
C39_Original ==
    /\ builder.created <= 1
    /\ builder.stage = "built"
          => \A k \in DOMAIN builder.asked :
                 builder.asked[k].h \in OnList(handlers, builder.asked[k].lst)

\* C40: emit() always goes through and never ends run(): the step that
\* publishes an event records it as published, leaves the ring untouched
\* when nobody is subscribed, finds the callbacks of its list already
\* scheduled for it, and takes run() back to the top of its loop without
\* returning; from there run() goes to the next poll.
C40_EmitWithoutSubscriberGoesOn ==
    [][\A r \in Runners :
         /\ (pc[r] = "emit" /\ pc'[r] # "emit")
               => /\ pc'[r] = "check"
                  /\ result'[r] = NoResult
                  /\ emitted' = Append(emitted, event[r])
                  /\ tail.rx_cnt = 0 => (buffer' = buffer /\ tail' = tail)
                  /\ event[r].id \in DispatchedIds
                  /\ \A k \in DOMAIN handlers[ListFor(event[r].variant)] :
                        \E i \in DOMAIN spawned :
                           /\ spawned[i].ev = event[r].id
                           /\ spawned[i].h = handlers[ListFor(event[r].variant)][k]
         /\ (pc[r] = "check" /\ pc'[r] # "check" /\ ~shutdown.value)
               => pc'[r] = "lock"]_vars

\* with nobody subscribed, an event was published and dropped, its callback
\* was scheduled, and run() is in the next poll
C40_Witness ==
    /\ tail.rx_cnt = 0
    /\ Len(emitted) = 1
    /\ buffer = InitBuffer /\ tail.pos = 0
    /\ \E i \in DOMAIN spawned : spawned[i].ev = emitted[1].id
    /\ pc["r1"] = "polling"
    /\ result["r1"] = NoResult

====
